---- MODULE Spec2Model ----
(***************************************************************************)
(* Repository synchronisation engine of label_app: the BranchTracker state *)
(* machine (services/github/branch_tracker.py), the installation token     *)
(* cache (services/git/auth.py) and the tracker registry.                  *)
(*                                                                         *)
(* Every Python thread is a call stack of frames; one action is one step   *)
(* of one method between two points at which another thread can observe    *)
(* or change shared state (a lock operation, a git or HTTP call, a write   *)
(* of a tracker attribute).  An exception in flight is exc[t]: it unwinds  *)
(* the stack frame by frame, leaving `with` blocks and entering `except`   *)
(* clauses exactly where the source has them.                              *)
(***************************************************************************)
EXTENDS Integers, Sequences, FiniteSets, TLC

\* ---------------------------------------------------------------- constants
POLL_TIMEOUT == 5
PULL_TIMEOUT == 15 * 60
PUSH_TIMEOUT == 5 * 60
AUTO_COMMIT_TIMEOUT == 5 * 60
TOKEN_REFRESH_TIMEOUT == 15 * 60
MERGE_SQUASHED_AFTER_INACTIVE == 1 * 60 * 60
TOKEN_REFRESH_SLOP_SECONDS == 300
\* GitHub mints installation tokens that expire one hour later (expires_at).
TokenLifetime == 60 * 60

\* ------------------------------------------------------------------- bounds
\* The clock stops at MaxTime; a caller thread makes at most MaxCalls calls.
MaxTime == 900
MaxCalls == 2
MaxTrackers == 2
\* The environment fails at most MaxFaults times.
MaxFaults == 1
\* Others push at most MaxRemoteCommits commits to the remote.
MaxRemoteCommits == 1
\* A URL path has at most MaxPathLen lexical pieces, a branch name at most
\* MaxBranchLen characters.
MaxPathLen == 5
MaxBranchLen == 3
\* The clock of an unbounded run is read relative to the present beyond this.
Horizon == 900

None == "None"
\* self._token = None; _token_cache.get() of a missing entry.
NoToken == [perm |-> "none", exp |-> 0]
\* self._last_pull_time = None (and the other timestamps).
NoTime == 0 - 1
Callers == {"c1", "c2"}
Monitors == {"m1", "m2"}
Workers == {"w1", "w2"}
Threads == Callers \cup Monitors \cup Workers

BranchKinds == {"tracking", "staging"}

VARIABLES
    now,                  \* time.time()
    faults,               \* the transient failures the environment still has
    github,               \* the remote: [public, install, default, refs, tip]
    disk,                 \* path -> the checkout at that path
    objs,                 \* the BranchTracker objects constructed so far
    TRACKERS,             \* canonical key -> tracker object
    REPO_PATH_TO_TRACKER, \* path -> tracker object
    TRACKER_ACCESS_LOCK,  \* threading.Lock: its holder
    REPO_LOCKS,           \* path -> threading.RLock: [owner, count]
    time_lock,            \* tracker -> threading.RLock: [owner, count]
    token_cache,          \* _token_cache: the installation's entry
    token_cache_lock,     \* _token_cache_lock: its holder
    stack,                \* thread -> its call stack, innermost frame last
    exc,                  \* thread -> the exception in flight
    ret,                  \* thread -> the value the last call returned
    died,                 \* thread -> the exception that ended it
    calls,                \* caller thread -> calls made
    pool,                 \* ThreadPoolExecutor: the tasks not yet taken
    hist                  \* history: what the claims observe

vars == <<now, faults, github, disk, objs, TRACKERS, REPO_PATH_TO_TRACKER,
          TRACKER_ACCESS_LOCK, REPO_LOCKS, time_lock, token_cache,
          token_cache_lock, stack, exc, ret, died, calls, pool, hist>>

envVars == <<now, faults, github>>
regVars == <<TRACKERS, REPO_PATH_TO_TRACKER, TRACKER_ACCESS_LOCK>>

\* ------------------------------------------------------------------ helpers
Max(a, b) == IF a >= b THEN a ELSE b

FreeLock == [owner |-> None, count |-> 0]

\* threading.Lock.acquire: free only; the owner waits for itself.
CanAcquireOnce(l, t) == l.owner = None

\* threading.RLock.acquire: free, or already owned by the caller.
CanAcquire(l, t) == l.owner = None \/ l.owner = t
Acquire(l, t) == [owner |-> t, count |-> l.count + 1]
\* A release that frees the lock at once, as a lock that is not re-entrant.
ReleaseOutright(l, t) == FreeLock

\* threading.RLock.release: one level; the lock is free at level 0.
Release(l, t) ==
    IF l.count <= 1 THEN FreeLock ELSE [owner |-> t, count |-> l.count - 1]

Top(t) == stack[t][Len(stack[t])]
Running(t) == Len(stack[t]) > 0 /\ exc[t] = "none"
At(t, proc, pc) == Running(t) /\ Top(t).proc = proc /\ Top(t).pc = pc

Frame(proc, self, force, branch) ==
    [proc |-> proc, pc |-> "start", self |-> self, force |-> force,
     branch |-> branch, pn |-> {}, arg |-> <<>>]

\* The stack with the innermost frame moved to pc.
Goto(t, pc) ==
    [stack EXCEPT ![t][Len(stack[t])].pc = pc]
\* A call: the innermost frame continues at pc once the callee has returned.
Call(t, pc, callee) ==
    [stack EXCEPT ![t] = Append([@ EXCEPT ![Len(@)].pc = pc], callee)]
Return(t) ==
    [stack EXCEPT ![t] = SubSeq(@, 1, Len(@) - 1)]

\* max(0.0, timeout - (time.time() - last)); float("inf") when last is None.
WaitTime(last, timeout) ==
    IF last = NoTime THEN 0 ELSE Max(0, timeout - (now - last))

Path(k) == objs[k].path

\* A lock for every tracker object instead of one for every path.
repo_lock_per_tracker(k) ==
    IF k = 1 THEN objs[1].path ELSE CHOOSE p \in DOMAIN REPO_LOCKS : p # objs[1].path

\* BranchTracker.repo_lock: REPO_LOCKS[self.path], the lock's key.
repo_lock(k) == Path(k)
Self(t) == Top(t).self

Raise(t, e) == exc' = [exc EXCEPT ![t] = e]

\* A transient failure of the network, of GitHub or of git: the environment
\* has a bounded number of them.
Fault == faults > 0 /\ faults' = faults - 1

\* except (GitError, OSError): GitCommandError is a GitError; the errors of
\* `requests` (HTTPError, ConnectionError, Timeout) are IOError, so OSError.
IsGitOrOSError(e) == e \in {"GitCommandError", "OSError", "HTTPError"}

lockVars == <<REPO_LOCKS, time_lock, token_cache_lock>>
thrVars == <<ret, died, calls, pool>>

\* ------------------------------------------------ services/git/urls.py
\* A URL is the sequence of its lexical pieces: a scheme ("https://"), an
\* optional userinfo piece ending in "@", a host, "/" separators, and the
\* pieces of each path segment (a trailing ".git" is a piece of its own).
RECURSIVE SplitSlash(_, _, _)
\* str.split("/"), dropping empty segments: [p for p in ....split("/") if p]
SplitSlash(s, cur, acc) ==
    IF s = <<>> THEN (IF cur = <<>> THEN acc ELSE Append(acc, cur))
    ELSE IF Head(s) = "/"
         THEN SplitSlash(Tail(s), <<>>, IF cur = <<>> THEN acc ELSE Append(acc, cur))
         ELSE SplitSlash(Tail(s), Append(cur, Head(s)), acc)

\* str.lower() of the host
Lower(h) == IF h = "GitHub.com" THEN "github.com" ELSE h

\* Index of the first "/" piece, or Len + 1.
RECURSIVE FirstSlash(_, _)
FirstSlash(s, i) ==
    IF i > Len(s) THEN i ELSE IF s[i] = "/" THEN i ELSE FirstSlash(s, i + 1)

\* Index at which "/tree/" starts in the path, or 0.
RECURSIVE FindTree(_, _)
FindTree(s, i) ==
    IF i + 2 > Len(s) THEN 0
    ELSE IF s[i] = "/" /\ s[i + 1] = "tree" /\ s[i + 2] = "/" THEN i
    ELSE FindTree(s, i + 1)

RECURSIVE RStripSlash(_)
RStripSlash(s) ==
    IF s # <<>> /\ s[Len(s)] = "/" THEN RStripSlash(SubSeq(s, 1, Len(s) - 1)) ELSE s

Invalid == [ok |-> FALSE, repo_url |-> <<>>, owner |-> <<>>, repo |-> <<>>]

\* urllib.parse._splitparams: the parameters of the last path segment, from
\* its first ";" on, are not part of the path.
splitparams(url) ==
    LET slashes == {i \in 1..Len(url) : url[i] = "/"}
        last == IF slashes = {} THEN 1 ELSE CHOOSE i \in slashes : \A j \in slashes : j <= i
        semis == {i \in last..Len(url) : url[i] = ";"}
    IN  IF semis = {} THEN url
        ELSE SubSeq(url, 1, (CHOOSE i \in semis : \A j \in semis : i <= j) - 1)

\* urllib.parse.urlparse(s): the netloc and the path of an http(s) URL
urlparse(s) ==
    LET hasScheme == s # <<>> /\ Head(s) \in {"https://", "http://"}
        rest == IF hasScheme THEN Tail(s) ELSE <<>>
        cut == FirstSlash(rest, 1)
    IN  [netloc |-> SubSeq(rest, 1, cut - 1),
         path |-> splitparams(SubSeq(rest, cut, Len(rest)))]

parse_github_url(raw_url) ==
    LET \* "git@github.com:owner/repo(.git)" is read as the https URL
        https(u) == IF u # <<>> /\ Head(u) = "git@github.com:"
                    THEN <<"https://", "github.com", "/">> \o Tail(u)
                    ELSE u
        parsed(p) ==
            LET netloc == p.netloc
                \* drop user:pass@
                host == IF netloc = <<>> THEN "" ELSE Lower(netloc[Len(netloc)])
                path == RStripSlash(p.path)
                tree == FindTree(path, 1)
                owner_repo == IF tree > 0 THEN SubSeq(path, 1, tree - 1) ELSE path
                parts == SplitSlash(owner_repo, <<>>, <<>>)
            IN  IF host \notin {"github.com", "www.github.com"} THEN Invalid
                ELSE IF Len(parts) < 2 THEN Invalid
                ELSE LET owner == parts[1]
                         repo0 == parts[2]
                         repo == IF repo0[Len(repo0)] = ".git"
                                 THEN SubSeq(repo0, 1, Len(repo0) - 1) ELSE repo0
                     IN  [ok |-> TRUE,
                          repo_url |-> <<"https://", "github.com", "/">> \o owner
                                       \o <<"/">> \o repo \o <<".git">>,
                          owner |-> owner, repo |-> repo]
    IN  CHOOSE r \in {parsed(p) : p \in {urlparse(s) : s \in {https(raw_url)}}} : TRUE

canonical_repo_url(url) == parse_github_url(url).repo_url

\* -------------------------------------------- services/github/repo_fs.py
\* A branch name is the sequence of its characters.
PathSeparators == {"/", "\\"}
AllowedChars == {"a", "b", "m", ".", "_", "-"}

RECURSIVE SkipSeparators(_)
SkipSeparators(s) ==
    IF s # <<>> /\ Head(s) \in PathSeparators THEN SkipSeparators(Tail(s)) ELSE s

\* re.sub(r"[\\/]+", "__", branch)
RECURSIVE CollapseSeparators(_)
CollapseSeparators(s) ==
    IF s = <<>> THEN <<>>
    ELSE IF Head(s) \in PathSeparators
         THEN <<"_", "_">> \o CollapseSeparators(SkipSeparators(s))
         ELSE <<Head(s)>> \o CollapseSeparators(Tail(s))

RECURSIVE LStripDots(_)
LStripDots(s) == IF s # <<>> /\ Head(s) = "." THEN LStripDots(Tail(s)) ELSE s

sanitize_branch_suffix(branch) ==
    IF branch = <<>> THEN <<"default">>
    ELSE LET s1 == CollapseSeparators(branch)
             \* _ALLOWED_SEGMENT_RE.sub("_", s)
             s2 == [i \in 1..Len(s1) |-> IF s1[i] \in AllowedChars THEN s1[i] ELSE "_"]
             s3 == IF Head(s2) = "." THEN <<"_">> \o LStripDots(s2) ELSE s2
         IN  IF s3 = <<>> THEN <<"default">> ELSE s3

\* owner, repo = urlparse(canon).path.strip("/").split("/")[-2:], the repo
\* without a trailing ".git" (nothing when there are fewer than two
\* segments: the unpacking raises ValueError).
owner_repo_of(canon) ==
    LET segs == SplitSlash(urlparse(canon).path, <<>>, <<>>)
        repo_git == segs[Len(segs)]
    IN  IF Len(segs) < 2 THEN <<<<>>, <<>>>>
        ELSE <<segs[Len(segs) - 1],
               IF repo_git[Len(repo_git)] = ".git"
               THEN SubSeq(repo_git, 1, Len(repo_git) - 1) ELSE repo_git>>

\* CACHE_DIR / owner / f"{repo}_{suffix}", owner and repo being read from
\* the canonical URL, parsed once more.
repo_dest(url, branch) ==
    LET dest == {<<o[1], o[2] \o <<"_">> \o sanitize_branch_suffix(branch)>> :
                   o \in {owner_repo_of(c) : c \in {canonical_repo_url(url)}}}
    IN  CHOOSE d \in dest : TRUE

\* The (url, branch) pairs of settings.projects, as discover_projects hands
\* them to ensure_trackers: two projects may live in one repository and
\* branch, and a URL has several spellings.
UrlHttps == <<"https://", "github.com", "/", "acme", "/", "tools">>
UrlSsh == <<"git@github.com:", "acme", "/", "tools", ".git">>
BranchMain == <<"m">>
BranchSlash == <<"a", "/", "b">>
BranchUnder == <<"a", "_", "_", "b">>
Urls == {UrlHttps, UrlSsh}
Branches == {BranchMain, BranchSlash, BranchUnder}
Pairs == Urls \X Branches
Keys == {<<canonical_repo_url(p[1]), p[2]>> : p \in Pairs}
Paths == {repo_dest(p[1], p[2]) : p \in Pairs}

\* ------------------------------------------------ services/github/ops.py
\* authed_https_for_app: the netloc becomes x-access-token:<token>@<netloc>.
\* The userinfo piece stands for the credentials of whichever token.
Credentials == "x-access-token:<token>@"
authed_https_for_app(base_https_url, token) ==
    <<Head(base_https_url), Credentials>> \o Tail(base_https_url)

\* authed_remote.__enter__, lines 58-62: the url origin is set to
authed_remote_enter(url, token) ==
    authed_https_for_app(canonical_repo_url(url), token)

\* clean_remote.__enter__, lines 95-99: the url origin is set to
clean_remote_enter(url) == canonical_repo_url(url)

\* A scope that leaves origin as its body used it.
remote_exit_unrestored(prev_url, url) == url

\* __exit__ of both scopes, lines 64-73 and 101-110: set_url(self._prev_url)
remote_exit(prev_url, url) == prev_url

\* ------------------------------------------------- services/git/auth.py
\* _get_cached_installation_token: the entry is served when it carries
\* contents: write (require_write) and is not within the slop of its expiry.
CacheUsableUntilExpiry(entry, require_write) ==
    /\ entry # NoToken
    /\ ~(require_write /\ entry.perm # "write")
    /\ ~(now > entry.exp)

\* _get_cached_installation_token, lines 136-148: the checks on the entry
CacheUsable(entry, require_write) ==
    /\ entry # NoToken
    /\ ~(require_write /\ entry.perm # "write")
    /\ ~(now > entry.exp - TOKEN_REFRESH_SLOP_SECONDS)

\* get_installation_id_for_repo: 200, 404, or any other failure.
get_installation_id_for_repo(t) ==
    /\ At(t, "get_installation_token", "start")
    /\ \/ /\ github.install # "none"
          /\ stack' = Goto(t, "cache_lock")
          /\ UNCHANGED <<exc, faults>>
       \/ /\ github.install = "none"
          /\ Raise(t, "GitHubNotInstalledError")
          /\ UNCHANGED <<stack, faults>>
       \/ /\ Fault
          /\ Raise(t, "HTTPError")
          /\ UNCHANGED stack
    /\ UNCHANGED <<now, github, disk, objs, regVars, lockVars, token_cache, thrVars, hist>>

\* with _token_cache_lock: (entering, for the read or for the write)
token_cache_acquire(t) ==
    /\ \/ At(t, "get_installation_token", "cache_lock")
       \/ At(t, "get_installation_token", "store_lock")
    /\ token_cache_lock = None
    /\ token_cache_lock' = t
    /\ stack' = Goto(t, IF Top(t).pc = "cache_lock" THEN "cache_read" ELSE "store")
    /\ UNCHANGED <<envVars, disk, objs, regVars, REPO_LOCKS, time_lock, token_cache,
                   exc, thrVars, hist>>

\* The cache mutex kept over the checks and the mint that follow the read.
CacheLockKept(t) == t

\* The end of `with _token_cache_lock:` in _get_cached_installation_token.
CacheLockExit(t) == None

\* entry = _token_cache.get(installation_id), then the checks on the entry.
get_cached_installation_token(t) ==
    /\ At(t, "get_installation_token", "cache_read")
    /\ token_cache_lock' = CacheLockExit(t)
    /\ IF CacheUsable(token_cache, Top(t).force)
       THEN /\ ret' = [ret EXCEPT ![t].token = token_cache]
            /\ stack' = Return(t)
       ELSE /\ stack' = Goto(t, "mint")
            /\ UNCHANGED ret
    /\ UNCHANGED <<envVars, disk, objs, regVars, REPO_LOCKS, time_lock, token_cache,
                   exc, died, calls, pool, hist>>

\* _create_installation_token: POST .../access_tokens; raise_for_status.
create_installation_token(t) ==
    /\ At(t, "get_installation_token", "mint")
    /\ \/ /\ github.install # "none"
          /\ ret' = [ret EXCEPT ![t].token =
                        [perm |-> github.install, exp |-> now + TokenLifetime]]
          /\ stack' = Goto(t, "store_lock")
          /\ UNCHANGED <<exc, faults>>
       \/ /\ Fault
          /\ Raise(t, "HTTPError")
          /\ UNCHANGED <<stack, ret>>
    /\ UNCHANGED <<now, github, disk, objs, regVars, lockVars, token_cache, died, calls,
                   pool, hist>>

\* _token_cache[installation_id] = {...}; then the require_write check.
store_installation_token(t) ==
    /\ At(t, "get_installation_token", "store")
    /\ token_cache_lock' = None
    /\ token_cache' = ret[t].token
    /\ IF Top(t).force /\ ret[t].token.perm # "write"
       THEN /\ Raise(t, "GitHubPermissionError")
            /\ UNCHANGED stack
       ELSE /\ stack' = Return(t)
            /\ UNCHANGED exc
    /\ UNCHANGED <<envVars, disk, objs, regVars, REPO_LOCKS, time_lock, thrVars, hist>>

get_installation_token(t) ==
    \/ get_installation_id_for_repo(t)
    \/ token_cache_acquire(t)
    \/ get_cached_installation_token(t)
    \/ create_installation_token(t)
    \/ store_installation_token(t)

\* ------------------------------------- services/github/branch_tracker.py
\* BranchTracker.is_initialized: (self.path / ".git").exists()
is_initialized(k) == disk[Path(k)].git

\* f"{branch}-staging"
StagingName(branch) == Append(branch, "-staging")
BranchName(k, kind) ==
    IF kind = "tracking" THEN objs[k].tracking_branch
    ELSE StagingName(objs[k].tracking_branch)

\* History: the start of the latest attempt of a rate-limited operation,
\* the start of the attempt before it, and whether the latest was forced.
Attempt(k, op, force) ==
    [hist EXCEPT !.attempt[k][op] = [at |-> now, prev |-> @.at, force |-> force]]

\* A time-lock block that does not end where the source ends it.
TimeLockKept(l, t) == l

\* The end of a `with self._time_lock:` block.
TimeLockExit(l, t) == Release(l, t)

\* One push timer for both branches.
PushTimerShared(branch) == "tracking"

\* self._last_push_time[branch]: every branch has a timer of its own.
PushTimer(branch) == branch

\* The timestamp and the interval of the rate-limited method of frame f.
LastTime(f) ==
    CASE f.proc = "refresh_token" -> objs[f.self].last_token_refresh_time
      [] f.proc = "pull_remote" -> objs[f.self].last_pull_time
      [] f.proc = "auto_commit" -> objs[f.self].last_auto_commit_time
      [] f.proc = "push_branch" -> objs[f.self].last_push_time[PushTimer(f.branch)]
Timeout(f) ==
    CASE f.proc = "refresh_token" -> TOKEN_REFRESH_TIMEOUT
      [] f.proc = "pull_remote" -> PULL_TIMEOUT
      [] f.proc = "auto_commit" -> AUTO_COMMIT_TIMEOUT
      [] f.proc = "push_branch" -> PUSH_TIMEOUT

\* `with self._time_lock:` of any rate-limited method (entering), and the
\* first statements of the block: wait_time = max(0.0, TIMEOUT - elapsed).
time_lock_enter(t) ==
    /\ Running(t)
    /\ Top(t).proc \in {"refresh_token", "pull_remote", "push_branch", "auto_commit"}
    /\ Top(t).pc = "start"
    /\ CanAcquire(time_lock[Self(t)], t)
    /\ time_lock' = [time_lock EXCEPT ![Self(t)] = Acquire(@, t)]
    /\ stack' = [stack EXCEPT ![t][Len(stack[t])].pc = "check",
                              ![t][Len(stack[t])].arg =
                                  <<WaitTime(LastTime(Top(t)), Timeout(Top(t)))>>]
    /\ UNCHANGED <<envVars, disk, objs, regVars, REPO_LOCKS, token_cache_lock,
                   token_cache, exc, thrVars, hist>>

\* `with self.repo_lock:` of pull_remote, push_branch, auto_commit and
\* sync_with_staging_branch (entering): REPO_LOCKS[self.path].
repo_lock_enter(t) ==
    /\ Running(t)
    /\ Top(t).proc \in {"pull_remote", "push_branch", "auto_commit",
                        "sync_with_staging_branch", "monitor_branches", "write"}
    /\ Top(t).pc = "lock"
    /\ CanAcquire(REPO_LOCKS[repo_lock(Self(t))], t)
    /\ REPO_LOCKS' = [REPO_LOCKS EXCEPT ![repo_lock(Self(t))] = Acquire(@, t)]
    /\ stack' = Goto(t, "locked")
    /\ UNCHANGED <<envVars, disk, objs, regVars, time_lock, token_cache_lock,
                   token_cache, exc, thrVars, hist>>

\* refresh_token, lines 204-208: the rate limit, then the call of
\* get_installation_token(owner, repo_name, require_write=True).
refresh_token_check(t) ==
    /\ At(t, "refresh_token", "check")
    /\ LET k == Self(t)
           wait_time == Top(t).arg[1]
       IN  /\ time_lock' = [time_lock EXCEPT ![k] = TimeLockExit(@, t)]
           /\ IF ~Top(t).force /\ wait_time > 0
              THEN /\ stack' = Return(t)
                   /\ UNCHANGED <<objs, hist>>
              ELSE /\ objs' = [objs EXCEPT ![k].last_token_refresh_time = now]
                   /\ hist' = Attempt(k, "refresh_token", Top(t).force)
                   /\ stack' = Call(t, "assign",
                                    Frame("get_installation_token", k, TRUE, "-"))
    /\ UNCHANGED <<envVars, disk, regVars, REPO_LOCKS, token_cache_lock,
                   token_cache, exc, thrVars>>

\* line 211: self._token = get_installation_token(...)
refresh_token_ok(t) ==
    /\ At(t, "refresh_token", "assign")
    /\ objs' = [objs EXCEPT ![Self(t)].token = ret[t].token]
    /\ ret' = [ret EXCEPT ![t].token = NoToken]
    /\ stack' = Goto(t, "OK")
    /\ UNCHANGED <<envVars, disk, regVars, lockVars, token_cache, exc, died, calls, pool, hist>>

\* lines 213-214, 216-217: except GitHubNotInstalledError / except
\* GitHubPermissionError: self._token = None
refresh_token_except(t) ==
    /\ Len(stack[t]) > 0
    /\ Top(t).proc = "refresh_token" /\ Top(t).pc = "assign"
    /\ exc[t] \in {"GitHubNotInstalledError", "GitHubPermissionError"}
    /\ objs' = [objs EXCEPT ![Self(t)].token = NoToken]
    /\ exc' = [exc EXCEPT ![t] = "none"]
    /\ ret' = [ret EXCEPT ![t].token = NoToken]
    /\ stack' = Goto(t, IF exc[t] = "GitHubNotInstalledError"
                        THEN "INACCESSIBLE" ELSE "READ_ONLY")
    /\ UNCHANGED <<envVars, disk, regVars, lockVars, token_cache, died, calls, pool, hist>>

\* The status OK whatever the branch.
status_OK(k, status) == [objs EXCEPT ![k].repo_status = "OK"]

\* lines 212, 215, 218: self._repo_status = RepoStatus.<the branch's status>
status_assigned(k, status) == [objs EXCEPT ![k].repo_status = status]

refresh_token_status(t) ==
    /\ Running(t)
    /\ Top(t).proc = "refresh_token"
    /\ Top(t).pc \in {"OK", "INACCESSIBLE", "READ_ONLY"}
    /\ objs' = status_assigned(Self(t), Top(t).pc)
    /\ stack' = Return(t)
    /\ UNCHANGED <<envVars, disk, regVars, lockVars, token_cache, exc, thrVars, hist>>

refresh_token(t) ==
    \/ refresh_token_check(t)
    \/ refresh_token_ok(t)
    \/ refresh_token_except(t)
    \/ refresh_token_status(t)

\* services/git/config.py, line 90: the name the app commits under
BOT_NAME == "<APP_SLUG>[bot]"

\* Whoever else commits to the repository.
Owner == "owner"

\* A commit: its message, the identity that made it and the files it adds.
\* A branch tip is the first-parent history it ends, oldest commit first.
\* committed_date is the clock of the moment the commit is made.
Commit(message, who, files) ==
    [message |-> message, author |-> who, committer |-> who, files |-> files,
     committed_date |-> now]

\* A committed_date further in the past than the idle threshold reaches.
LongAgo == 0 - MERGE_SQUASHED_AFTER_INACTIVE - PULL_TIMEOUT - 1

\* A commit made before the app started.
Old(c) == [c EXCEPT !.committed_date = LongAgo]

Root == <<Old(Commit("initial", Owner, {}))>>

Ext(f, x, v) == [y \in DOMAIN f \cup {x} |-> IF y = x THEN v ELSE f[y]]

\* The number of commits two histories share.
MergeBase(a, b) ==
    LET S == {n \in 0..Len(a) : n <= Len(b) /\ SubSeq(a, 1, n) = SubSeq(b, 1, n)}
    IN  CHOOSE n \in S : \A m \in S : m <= n

\* ops.count_commits_between: (ahead, behind), the commits of ref_a that are
\* not in ref_b and the commits of ref_b that are not in ref_a.
count_commits_between(ref_a, ref_b) ==
    <<Len(ref_a) - MergeBase(ref_a, ref_b), Len(ref_b) - MergeBase(ref_a, ref_b)>>

\* The files that the commits of tip after its first n change.
Touched(tip, n) == UNION {tip[i].files : i \in (n + 1)..Len(tip)}

\* A replayed commit that still changes something, or never changed anything.
Kept(pair) == pair[2].files # {} \/ pair[1].files = {}

\* git rebase <onto> -s recursive -X <option>: the commits of the branch that
\* onto lacks, replayed on top of onto (the branch itself when it already
\* contains onto); the committer date of a replayed commit is the moment of
\* the rebase.  A file that onto has changed too since the merge base is a
\* conflict: in a rebase "ours" is the side of onto and "theirs" the side of
\* the replayed commit, so with "ours" the replayed commit loses its change
\* of the file (and is dropped when nothing is left of it) and with "theirs"
\* it keeps the change.
rebase(branch, onto, option) ==
    LET n == MergeBase(branch, onto)
        conflicts == IF option = "ours" THEN Touched(onto, n) ELSE {}
        replayed == [i \in 1..(Len(branch) - n) |->
                       <<branch[n + i],
                         [branch[n + i] EXCEPT !.committed_date = now,
                                               !.files = @ \ conflicts]>>]
        kept == SelectSeq(replayed, Kept)
    IN  IF n = Len(onto) THEN branch
        ELSE onto \o [i \in 1..Len(kept) |-> kept[i][2]]

\* A checkout that leaves HEAD where it was.
checkout_skipped(d, b) == d

\* git checkout <b>
checkout(d, b) == [d EXCEPT !.HEAD = b]

\* repo.create_head(b, c)
create_head(d, b, c) == [d EXCEPT !.heads = @ \cup {b}, !.tip = Ext(@, b, c)]

\* origin.fetch(b): the remote-tracking ref of b is the remote's branch
fetch(d, b) == [d EXCEPT !.refs = @ \cup {b}, !.rtip = Ext(@, b, github.tip[b])]

\* repo.index.commit(...): a commit on the branch that is checked out
index_commit(d, c) == [d EXCEPT !.tip[d.HEAD] = Append(@, c)]

\* The files of the commits of the branch that is checked out.
Tracked(d) ==
    IF d.HEAD \in DOMAIN d.tip
    THEN UNION {d.tip[d.HEAD][i].files : i \in 1..Len(d.tip[d.HEAD])}
    ELSE {}

\* What git add --all stages: the staged changes, the unstaged modifications
\* of tracked files and the untracked files.
Changes(d) == d.staged \cup d.modified \cup d.untracked

\* git add --all: every change becomes part of the next commit
add_all(d) == [d EXCEPT !.untracked = {}, !.staged = {}, !.modified = {}]

\* Repo.clone_from(url, dest): the checkout of the remote's default branch,
\* with the remote-tracking refs of every remote branch; origin is url.
clone_from(url) ==
    [git |-> TRUE, heads |-> {github.default}, HEAD |-> github.default,
     refs |-> github.refs,
     tip |-> [b \in {github.default} |-> github.tip[github.default]],
     rtip |-> github.tip, untracked |-> {}, staged |-> {}, modified |-> {},
     url |-> url]

\* ops.clone, lines 201-203: the url that is cloned
clone_url(base_https, token) ==
    IF token = NoToken THEN base_https ELSE authed_https_for_app(base_https, token)

\* ops.clone, lines 205-207: clone_from, then origin.set_url(base_https)
Cloned(base_https, token) ==
    [clone_from(clone_url(base_https, token)) EXCEPT !.url = base_https]

\* What a clone that raised leaves on disk: nothing when clone_from failed,
\* the checkout as clone_from made it when Repo(dest) failed after it.
CloneLeftovers(d, base_https, token) == {d, clone_from(clone_url(base_https, token))}

\* ops.sync_with_remote, lines 143-176, for one branch: a fetched branch is
\* checked out (created off origin/<branch> if missing) and rebased onto
\* origin/<branch>; a branch the remote lacks is created off HEAD.
SyncBranch(d, b) ==
    IF b \in github.refs
    THEN LET f == fetch(d, b)
             c == IF b \in d.heads THEN checkout(f, b)
                  ELSE checkout(create_head(f, b, f.rtip[b]), b)
         IN  [c EXCEPT !.tip[b] = rebase(@, f.rtip[b], "ours")]
    ELSE IF b \in d.heads THEN checkout(d, b)
         ELSE checkout(create_head(d, b, d.tip[d.HEAD]), b)

\* ops.sync_with_remote on branches bs, up to and including the first n of
\* them.
RECURSIVE Synced(_, _, _)
Synced(d, bs, n) ==
    IF n = 0 THEN d ELSE SyncBranch(Synced(d, bs, n - 1), bs[n])

\* ops.sync_with_remote, lines 139-141: the branches are synced inside
\* clean_remote(repo), or authed_remote(repo, token) when there is a token.
sync_with_remote(d, bs, n, token) ==
    [Synced(d, bs, n) EXCEPT
       !.url = remote_exit(d.url, IF token = NoToken THEN clean_remote_enter(d.url)
                                  ELSE authed_remote_enter(d.url, token))]

\* The git failures a remote operation can end with.
GitFailures == {"GitCommandError", "OSError"}

\* A pull that only its rate limit can skip.
pull_rate_limited(force, wait_time, status) == ~force /\ wait_time > 0

\* pull_remote, lines 155-160: if not force: return when the rate limit has
\* not passed or the status is INACCESSIBLE
pull_skipped(force, wait_time, status) ==
    ~force /\ (wait_time > 0 \/ status = "INACCESSIBLE")

\* pull_remote, lines 149-162
pull_remote_check(t) ==
    /\ At(t, "pull_remote", "check")
    /\ LET k == Self(t)
           wait_time == Top(t).arg[1]
       IN  /\ time_lock' = [time_lock EXCEPT ![k] = TimeLockExit(@, t)]
           /\ IF pull_skipped(Top(t).force, wait_time, objs[k].repo_status)
              THEN /\ stack' = Return(t)
                   /\ UNCHANGED <<objs, hist>>
              ELSE /\ objs' = [objs EXCEPT ![k].last_pull_time = now]
                   /\ hist' = Attempt(k, "pull_remote", Top(t).force)
                   /\ stack' = Goto(t, "lock")
    /\ UNCHANGED <<envVars, disk, regVars, REPO_LOCKS, token_cache_lock,
                   token_cache, exc, thrVars>>

\* lines 166-169: self._update() if self.is_initialized() else self._init()
pull_remote_sync(t) ==
    /\ At(t, "pull_remote", "locked")
    /\ stack' = Call(t, "staging",
                     Frame(IF is_initialized(Self(t)) THEN "_update" ELSE "_init",
                           Self(t), FALSE, "-"))
    /\ UNCHANGED <<envVars, disk, objs, regVars, lockVars, token_cache, exc, thrVars, hist>>

\* lines 172-173: if self.is_initialized(): self.ensure_staging_branch()
pull_remote_staging(t) ==
    /\ At(t, "pull_remote", "staging")
    /\ stack' = IF is_initialized(Self(t))
                THEN Call(t, "exit", Frame("ensure_staging_branch", Self(t), FALSE, "-"))
                ELSE Goto(t, "exit")
    /\ UNCHANGED <<envVars, disk, objs, regVars, lockVars, token_cache, exc, thrVars, hist>>

\* line 174: except (GitError, OSError) as e: print(...)
pull_remote_except(t) ==
    /\ Len(stack[t]) > 0
    /\ Top(t).proc = "pull_remote" /\ Top(t).pc \in {"staging", "exit"}
    /\ IsGitOrOSError(exc[t])
    /\ exc' = [exc EXCEPT ![t] = "none"]
    /\ stack' = Goto(t, "exit")
    /\ UNCHANGED <<envVars, disk, objs, regVars, lockVars, token_cache, thrVars, hist>>

\* the end of `with self.repo_lock:` in pull_remote
pull_remote_exit(t) ==
    /\ At(t, "pull_remote", "exit")
    /\ REPO_LOCKS' = [REPO_LOCKS EXCEPT ![repo_lock(Self(t))] = Release(@, t)]
    /\ stack' = Return(t)
    /\ UNCHANGED <<envVars, disk, objs, regVars, time_lock, token_cache_lock,
                   token_cache, exc, thrVars, hist>>

pull_remote(t) ==
    \/ pull_remote_check(t)
    \/ pull_remote_sync(t)
    \/ pull_remote_staging(t)
    \/ pull_remote_except(t)
    \/ pull_remote_exit(t)

\* A failed anonymous attempt that also records the repository as unreadable.
MarkPrivateInaccessible(k) ==
    [objs EXCEPT ![k].is_private = TRUE, ![k].repo_status = "INACCESSIBLE"]

\* except GitCommandError: self._is_private = True
MarkPrivate(k) == [objs EXCEPT ![k].is_private = TRUE]

\* History: how the latest clone or update of tracker k ended, with the
\* branches synced or without a token to sync them with.
Pulled(k, outcome) == [hist EXCEPT !.pulled[k] = outcome]

\* _init, lines 104-114, and _update, lines 127-138: the anonymous attempt.
\* A GitCommandError marks the repository private; any other error is raised.
anonymous_sync(t) ==
    /\ Running(t)
    /\ Top(t).proc \in {"_init", "_update"} /\ Top(t).pc = "start"
    /\ LET k == Self(t)
           p == Path(k)
           bs == <<BranchName(k, "tracking"), BranchName(k, "staging")>>
       IN  IF Top(t).proc = "_init" /\ is_initialized(k)
           THEN /\ stack' = Return(t)
                /\ UNCHANGED <<disk, objs, exc, faults, hist>>
           ELSE IF Top(t).proc = "_update" /\ ~is_initialized(k)
           THEN /\ Raise(t, "RuntimeError")
                /\ UNCHANGED <<disk, objs, stack, faults, hist>>
           ELSE IF objs[k].is_private
           THEN /\ stack' = Goto(t, "private")
                /\ UNCHANGED <<disk, objs, exc, faults, hist>>
           ELSE \/ /\ github.public
                   /\ disk' = [disk EXCEPT ![p] =
                                 IF Top(t).proc = "_init" THEN Cloned(objs[k].url, NoToken)
                                 ELSE sync_with_remote(@, bs, 2, NoToken)]
                   /\ hist' = Pulled(k, "synced")
                   /\ stack' = Goto(t, "private")
                   /\ UNCHANGED <<objs, exc, faults>>
                \/ /\ ~github.public
                   /\ objs' = MarkPrivate(k)
                   /\ stack' = Goto(t, "private")
                   /\ UNCHANGED <<disk, exc, faults, hist>>
                \/ /\ github.public /\ Fault
                   /\ \E n \in 0..1 :
                        disk' = [disk EXCEPT ![p] =
                                   IF Top(t).proc = "_init" THEN @
                                   ELSE sync_with_remote(@, bs, n, NoToken)]
                   /\ objs' = MarkPrivate(k)
                   /\ stack' = Goto(t, "private")
                   /\ UNCHANGED <<exc, hist>>
                \/ /\ Fault
                   /\ Raise(t, "OSError")
                   /\ IF Top(t).proc = "_init"
                      THEN \E d \in CloneLeftovers(disk[p], objs[k].url, NoToken) :
                              disk' = [disk EXCEPT ![p] = d]
                      ELSE UNCHANGED disk
                   /\ UNCHANGED <<objs, stack, hist>>
    /\ UNCHANGED <<now, github, regVars, lockVars, token_cache, thrVars>>

\* lines 116-117 and 140-141: if self._is_private: self.refresh_token()
private_refresh(t) ==
    /\ Running(t)
    /\ Top(t).proc \in {"_init", "_update"} /\ Top(t).pc = "private"
    /\ stack' = IF objs[Self(t)].is_private
                THEN Call(t, "authed", Frame("refresh_token", Self(t), FALSE, "-"))
                ELSE Return(t)
    /\ UNCHANGED <<envVars, disk, objs, regVars, lockVars, token_cache, exc, thrVars, hist>>

\* lines 118-122 and 142-146: the attempt with the token, if there is one.
authed_sync(t) ==
    /\ Running(t)
    /\ Top(t).proc \in {"_init", "_update"} /\ Top(t).pc = "authed"
    /\ LET k == Self(t)
           p == Path(k)
           bs == <<BranchName(k, "tracking"), BranchName(k, "staging")>>
       IN  IF objs[k].token = NoToken
           THEN /\ stack' = Return(t)
                /\ hist' = Pulled(k, "skipped")
                /\ UNCHANGED <<disk, exc, faults>>
           ELSE \/ /\ github.install # "none"
                   /\ disk' = [disk EXCEPT ![p] =
                                 IF Top(t).proc = "_init" THEN Cloned(objs[k].url, objs[k].token)
                                 ELSE sync_with_remote(@, bs, 2, objs[k].token)]
                   /\ hist' = Pulled(k, "synced")
                   /\ stack' = Return(t)
                   /\ UNCHANGED <<exc, faults>>
                \/ /\ github.install = "none"
                   /\ Raise(t, "GitCommandError")
                   /\ disk' = [disk EXCEPT ![p] =
                                 IF Top(t).proc = "_init" THEN @
                                 ELSE sync_with_remote(@, bs, 0, objs[k].token)]
                   /\ UNCHANGED <<stack, faults, hist>>
                \/ /\ github.install # "none" /\ Fault
                   /\ \E e \in GitFailures : Raise(t, e)
                   /\ IF Top(t).proc = "_init"
                      THEN \E d \in CloneLeftovers(disk[p], objs[k].url, objs[k].token) :
                              disk' = [disk EXCEPT ![p] = d]
                      ELSE \E n \in 0..1 :
                              disk' = [disk EXCEPT ![p] =
                                         sync_with_remote(@, bs, n, objs[k].token)]
                   /\ UNCHANGED <<stack, hist>>
    /\ UNCHANGED <<now, github, objs, regVars, lockVars, token_cache, thrVars>>

init_update(t) ==
    \/ anonymous_sync(t)
    \/ private_refresh(t)
    \/ authed_sync(t)

\* ensure_staging_branch, lines 229-232: the initialisation check, then
\* `with self.repo_lock:` (entering).
ensure_staging_branch_enter(t) ==
    /\ At(t, "ensure_staging_branch", "start")
    /\ IF ~is_initialized(Self(t))
       THEN /\ Raise(t, "RuntimeError")
            /\ UNCHANGED <<stack, REPO_LOCKS>>
       ELSE /\ CanAcquire(REPO_LOCKS[repo_lock(Self(t))], t)
            /\ REPO_LOCKS' = [REPO_LOCKS EXCEPT ![repo_lock(Self(t))] = Acquire(@, t)]
            /\ stack' = Goto(t, "locked")
            /\ UNCHANGED exc
    /\ UNCHANGED <<envVars, disk, objs, regVars, time_lock, token_cache_lock,
                   token_cache, thrVars, hist>>

\* lines 234-252: switch to staging, creating it (from the remote ref, else
\* from tracking) and pushing it when it did not exist.
ensure_staging_branch_body(t) ==
    /\ At(t, "ensure_staging_branch", "locked")
    /\ LET k == Self(t)
           p == Path(k)
           staging == BranchName(k, "staging")
       IN  IF BranchName(k, "tracking") \notin disk[p].heads
           THEN /\ Raise(t, "GitCommandError")
                /\ UNCHANGED <<disk, stack, faults>>
           ELSE IF staging \in disk[p].heads
           THEN \/ /\ disk' = [disk EXCEPT ![p] = checkout(@, staging)]
                   /\ stack' = Goto(t, "exit")
                   /\ UNCHANGED <<exc, faults>>
                \/ /\ Fault
                   /\ Raise(t, "GitCommandError")
                   /\ UNCHANGED <<disk, stack>>
           ELSE /\ disk' = [disk EXCEPT ![p] =
                              checkout(create_head(@, staging,
                                                   IF staging \in @.refs THEN @.rtip[staging]
                                                   ELSE @.tip[BranchName(k, "tracking")]),
                                       staging)]
                /\ stack' = Call(t, "exit", Frame("push_branch", k, TRUE, "staging"))
                /\ UNCHANGED <<exc, faults>>
    /\ UNCHANGED <<now, github, objs, regVars, lockVars, token_cache, thrVars, hist>>

\* the end of `with self.repo_lock:` in ensure_staging_branch
ensure_staging_branch_exit(t) ==
    /\ At(t, "ensure_staging_branch", "exit")
    /\ REPO_LOCKS' = [REPO_LOCKS EXCEPT ![repo_lock(Self(t))] = Release(@, t)]
    /\ stack' = Return(t)
    /\ hist' = [hist EXCEPT !.ensured = @ \cup {Self(t)}]
    /\ UNCHANGED <<envVars, disk, objs, regVars, time_lock, token_cache_lock,
                   token_cache, exc, thrVars>>

ensure_staging_branch(t) ==
    \/ ensure_staging_branch_enter(t)
    \/ ensure_staging_branch_body(t)
    \/ ensure_staging_branch_exit(t)

\* push_branch, lines 255-269: the per-branch rate limit, then
\* self.refresh_token(force=self._token is None)
push_branch_check(t) ==
    /\ At(t, "push_branch", "check")
    /\ LET k == Self(t)
           branch == Top(t).branch
           wait_time == Top(t).arg[1]
       IN  /\ time_lock' = [time_lock EXCEPT ![k] = TimeLockExit(@, t)]
           /\ IF ~Top(t).force /\ wait_time > 0
              THEN /\ stack' = Return(t)
                   /\ UNCHANGED <<objs, hist>>
              ELSE /\ objs' = [objs EXCEPT ![k].last_push_time[PushTimer(branch)] = now]
                   /\ hist' = Attempt(k, branch, Top(t).force)
                   /\ stack' = Call(t, "token",
                                    Frame("refresh_token", k, objs[k].token = NoToken, "-"))
    /\ UNCHANGED <<envVars, disk, regVars, REPO_LOCKS, token_cache_lock,
                   token_cache, exc, thrVars>>

\* A token check that lets every caller through.
token_is_None_ignored(k) == FALSE

\* `if self._token is None:` in push_branch and sync_with_staging_branch
token_is_None(k) == objs[k].token = NoToken

\* lines 270-272: if self._token is None: return
push_branch_token(t) ==
    /\ At(t, "push_branch", "token")
    /\ stack' = IF token_is_None(Self(t)) THEN Return(t) ELSE Goto(t, "lock")
    /\ UNCHANGED <<envVars, disk, objs, regVars, lockVars, token_cache, exc, thrVars, hist>>

\* A push that is forced when its caller asked to bypass the rate limit.
force_as_asked(branch, force) == force

\* line 278: force=(branch == "staging")
force_push(branch, force) == branch = "staging"

\* Whether the remote takes a push of the local branch name: the
\* installation may write, the branch exists locally, and the push is forced
\* or a fast-forward of the remote's branch.
Accepted(d, name, force) ==
    /\ github.install = "write"
    /\ name \in d.heads
    /\ IF force \/ name \notin github.refs THEN TRUE
       ELSE count_commits_between(github.tip[name], d.tip[name])[1] = 0

\* lines 274-280: origin.push(refspec, force=(branch == "staging")) under the
\* repo lock; a GitError or OSError is logged.  self.repo is None while the
\* checkout does not exist, and authed_remote(None, ...) fails on it.
push_branch_push(t) ==
    /\ At(t, "push_branch", "locked")
    /\ LET k == Self(t)
           p == Path(k)
           name == BranchName(k, Top(t).branch)
       IN  IF ~is_initialized(k)
           THEN /\ Raise(t, "AttributeError")
                /\ UNCHANGED <<github, faults, disk, REPO_LOCKS, stack, hist>>
           ELSE /\ REPO_LOCKS' = [REPO_LOCKS EXCEPT ![repo_lock(k)] = Release(@, t)]
                /\ stack' = Return(t)
                /\ UNCHANGED exc
                /\ hist' = [hist EXCEPT
                              !.pushed = @ \cup {k},
                              !.pushes = @ \cup
                                {[branch |-> Top(t).branch, asked |-> Top(t).force,
                                  force |-> force_push(Top(t).branch, Top(t).force)]}]
                /\ LET url == remote_exit(disk[p].url,
                                           authed_remote_enter(disk[p].url, objs[k].token))
                   IN  \/ /\ Accepted(disk[p], name, force_push(Top(t).branch, Top(t).force))
                          /\ github' = [github EXCEPT
                                          !.refs = @ \cup {name},
                                          !.tip = Ext(@, name, disk[p].tip[name])]
                          /\ disk' = [disk EXCEPT
                                        ![p].refs = @ \cup {name},
                                        ![p].rtip = Ext(@, name, disk[p].tip[name]),
                                        ![p].url = url]
                          /\ UNCHANGED faults
                       \/ /\ ~Accepted(disk[p], name, force_push(Top(t).branch, Top(t).force))
                          /\ disk' = [disk EXCEPT ![p].url = url]
                          /\ UNCHANGED <<github, faults>>
                       \/ /\ Fault
                          /\ disk' = [disk EXCEPT ![p].url = url]
                          /\ UNCHANGED github
    /\ UNCHANGED <<now, objs, regVars, time_lock, token_cache_lock, token_cache, thrVars>>

push_branch(t) ==
    \/ push_branch_check(t)
    \/ push_branch_token(t)
    \/ push_branch_push(t)

\* reset, lines 178-180
reset_clear(t) ==
    /\ At(t, "reset", "start")
    /\ objs' = [objs EXCEPT ![Self(t)].token = NoToken,
                            ![Self(t)].repo_status = None,
                            ![Self(t)].is_private = FALSE]
    /\ stack' = Call(t, "pull", Frame("refresh_token", Self(t), TRUE, "-"))
    /\ UNCHANGED <<envVars, disk, regVars, lockVars, token_cache, exc, thrVars, hist>>

\* line 187: self.pull_remote(force=True)
reset_pull(t) ==
    /\ At(t, "reset", "pull")
    /\ stack' = Call(t, "monitor", Frame("pull_remote", Self(t), TRUE, "-"))
    /\ UNCHANGED <<envVars, disk, objs, regVars, lockVars, token_cache, exc, thrVars, hist>>

\* line 188: except (GitError, OSError) as e: print(...)
reset_except(t) ==
    /\ Len(stack[t]) > 0
    /\ Top(t).proc = "reset" /\ Top(t).pc \in {"pull", "monitor"}
    /\ IsGitOrOSError(exc[t])
    /\ exc' = [exc EXCEPT ![t] = "none"]
    /\ stack' = Goto(t, "monitor")
    /\ UNCHANGED <<envVars, disk, objs, regVars, lockVars, token_cache, thrVars, hist>>

\* threading.Thread.is_alive of self._monitor_thread
monitor_alive(k) ==
    /\ objs[k].monitor_thread # None
    /\ stack[objs[k].monitor_thread] # <<>>
    /\ stack[objs[k].monitor_thread][1].self = k

\* line 191: if self._monitor_thread is None or not ....is_alive()
reset_monitor(t) ==
    /\ At(t, "reset", "monitor")
    /\ stack' = IF monitor_alive(Self(t)) THEN Return(t) ELSE Goto(t, "thread")
    /\ UNCHANGED <<envVars, disk, objs, regVars, lockVars, token_cache, exc, thrVars, hist>>

\* lines 192-196: self._monitor_thread = threading.Thread(...); .start()
reset_thread(t) ==
    /\ At(t, "reset", "thread")
    /\ LET k == Self(t)
           free == {m \in Monitors : stack[m] = <<>>}
       IN  /\ free # {}
           /\ LET m == CHOOSE m \in free : TRUE
              IN  /\ objs' = [objs EXCEPT ![k].monitor_thread = m]
                  /\ stack' = [Return(t) EXCEPT
                                 ![m] = <<Frame("monitor_branches", k, FALSE, "-")>>]
                  /\ died' = [died EXCEPT ![m] = "none"]
    /\ UNCHANGED <<envVars, disk, regVars, lockVars, token_cache, exc, ret, calls, pool, hist>>

reset(t) ==
    \/ reset_clear(t)
    \/ reset_pull(t)
    \/ reset_except(t)
    \/ reset_monitor(t)
    \/ reset_thread(t)

\* BranchTracker.__init__, lines 41-67: the attributes of a new object.
NewTracker(url, branch) ==
    [key |-> <<canonical_repo_url(url), branch>>,
     url |-> canonical_repo_url(url),
     tracking_branch |-> branch,
     path |-> repo_dest(url, branch),
     last_push_time |-> [b \in BranchKinds |-> NoTime],
     last_pull_time |-> NoTime,
     last_merge_time |-> NoTime,
     last_token_refresh_time |-> NoTime,
     last_auto_commit_time |-> NoTime,
     token |-> NoToken,
     repo_status |-> None,
     is_private |-> FALSE,
     monitor_thread |-> None]

\* BranchTracker(repo_url=url, branch=branch): __init__ up to self.reset()
BranchTracker_init(t) ==
    /\ At(t, "__init__", "start")
    /\ Len(objs) < MaxTrackers
    /\ objs' = Append(objs, NewTracker(Top(t).arg[1], Top(t).arg[2]))
    /\ hist' = [hist EXCEPT !.constructed = Append(@, Top(t).arg)]
    /\ stack' = [stack EXCEPT ![t] =
                   Append([@ EXCEPT ![Len(@)].pc = "done", ![Len(@)].self = Len(objs) + 1],
                          Frame("reset", Len(objs) + 1, FALSE, "-"))]
    /\ UNCHANGED <<envVars, disk, regVars, lockVars, token_cache, exc, thrVars>>

\* __init__ returns: the caller holds the new object.
BranchTracker_done(t) ==
    /\ At(t, "__init__", "done")
    /\ ret' = [ret EXCEPT ![t].obj = Self(t)]
    /\ stack' = Return(t)
    /\ UNCHANGED <<envVars, disk, objs, regVars, lockVars, token_cache, exc, died,
                   calls, pool, hist>>

BranchTracker(t) ==
    \/ BranchTracker_init(t)
    \/ BranchTracker_done(t)

\* _ensure_tracker, lines 440-444
ensure_tracker_check(t) ==
    /\ At(t, "_ensure_tracker", "start")
    /\ stack' = IF TRACKERS[Top(t).arg] # 0
                THEN Return(t)
                ELSE Call(t, "register", [Frame("__init__", 0, FALSE, "-")
                                            EXCEPT !.arg = Top(t).arg])
    /\ UNCHANGED <<envVars, disk, objs, regVars, lockVars, token_cache, exc, thrVars, hist>>

\* lines 445-446
ensure_tracker_register(t) ==
    /\ At(t, "_ensure_tracker", "register")
    /\ TRACKERS' = [TRACKERS EXCEPT ![Top(t).arg] = ret[t].obj]
    /\ REPO_PATH_TO_TRACKER' =
           [REPO_PATH_TO_TRACKER EXCEPT ![Path(ret[t].obj)] = ret[t].obj]
    /\ stack' = Return(t)
    /\ UNCHANGED <<envVars, disk, objs, TRACKER_ACCESS_LOCK, lockVars, token_cache,
                   exc, thrVars, hist>>

\* utils/lock.py: `with thread_lock:` around a registry function (entering)
registry_lock_enter(t) ==
    /\ Running(t)
    /\ Top(t).proc \in {"get_branch_tracker", "ensure_trackers", "reset_trackers"}
    /\ Top(t).pc = "start"
    /\ TRACKER_ACCESS_LOCK = None
    /\ TRACKER_ACCESS_LOCK' = t
    /\ stack' = Goto(t, "locked")
    /\ UNCHANGED <<envVars, disk, objs, TRACKERS, REPO_PATH_TO_TRACKER, lockVars,
                   token_cache, exc, thrVars, hist>>

\* get_branch_tracker, lines 451-453
get_branch_tracker_ensure(t) ==
    /\ At(t, "get_branch_tracker", "locked")
    /\ LET key == <<canonical_repo_url(Top(t).arg[1]), Top(t).arg[2]>>
       IN  stack' = Call(t, "exit", [Frame("_ensure_tracker", 0, FALSE, "-")
                                       EXCEPT !.arg = key])
    /\ UNCHANGED <<envVars, disk, objs, regVars, lockVars, token_cache, exc, thrVars, hist>>

\* line 454: return TRACKERS[key], leaving the lock
get_branch_tracker_exit(t) ==
    /\ At(t, "get_branch_tracker", "exit")
    /\ LET key == <<canonical_repo_url(Top(t).arg[1]), Top(t).arg[2]>>
       IN  ret' = [ret EXCEPT ![t].obj = TRACKERS[key]]
    /\ TRACKER_ACCESS_LOCK' = None
    /\ stack' = Return(t)
    /\ UNCHANGED <<envVars, disk, objs, TRACKERS, REPO_PATH_TO_TRACKER, lockVars,
                   token_cache, exc, died, calls, pool, hist>>

RECURSIVE SelectSeq2(_, _)
\* [key for key in canonical_keys if key not in TRACKERS]
SelectSeq2(s, T) ==
    IF s = <<>> THEN <<>>
    ELSE (IF T[Head(s)] = 0 THEN <<Head(s)>> ELSE <<>>) \o SelectSeq2(Tail(s), T)

\* ensure_trackers, lines 475-481: the keys not yet registered go to the pool.
ensure_trackers_submit(t) ==
    /\ At(t, "ensure_trackers", "locked")
    /\ LET canonical_keys == [i \in 1..Len(Top(t).arg) |->
                                <<canonical_repo_url(Top(t).arg[i][1]), Top(t).arg[i][2]>>]
           non_ensured == SelectSeq2(canonical_keys, TRACKERS)
       IN  /\ pool' = non_ensured
           /\ stack' = Goto(t, "exit")
    /\ UNCHANGED <<envVars, disk, objs, regVars, lockVars, token_cache, exc, ret,
                   died, calls, hist>>

\* executor.map(fn, keys): the function the pool was given, by the registry
\* function that holds the registry lock.
Task ==
    IF \E t \in Callers : At(t, "reset_trackers", "exit")
    THEN "_reset_tracker" ELSE "_ensure_tracker"

\* A worker thread of the ThreadPoolExecutor takes the next task.
worker_take(w) ==
    /\ w \in Workers
    /\ stack[w] = <<>>
    /\ pool # <<>>
    /\ pool' = Tail(pool)
    /\ stack' = [stack EXCEPT ![w] =
                   <<[Frame(Task, 0, FALSE, "-") EXCEPT !.arg = Head(pool)]>>]
    /\ died' = [died EXCEPT ![w] = "none"]
    /\ UNCHANGED <<envVars, disk, objs, regVars, lockVars, token_cache, exc, ret,
                   calls, hist>>

\* The end of `with ThreadPoolExecutor(...)` (shutdown(wait=True)), then of
\* the registry lock.
ensure_trackers_exit(t) ==
    /\ At(t, "ensure_trackers", "exit")
    /\ pool = <<>>
    /\ \A w \in Workers : stack[w] = <<>>
    /\ TRACKER_ACCESS_LOCK' = None
    /\ stack' = Return(t)
    /\ UNCHANGED <<envVars, disk, objs, TRACKERS, REPO_PATH_TO_TRACKER, lockVars,
                   token_cache, exc, thrVars, hist>>

\* get_branch_tracker with the helpers it shares with ensure_trackers
get_branch_tracker(t) ==
    \/ ensure_tracker_check(t)
    \/ ensure_tracker_register(t)
    \/ registry_lock_enter(t)
    \/ get_branch_tracker_ensure(t)
    \/ get_branch_tracker_exit(t)

ensure_trackers(t) ==
    \/ ensure_trackers_submit(t)
    \/ worker_take(t)
    \/ ensure_trackers_exit(t)

RECURSIVE Registered(_, _)
\* [key for key in canonical_keys if key in TRACKERS]
Registered(s, T) ==
    IF s = <<>> THEN <<>>
    ELSE (IF T[Head(s)] # 0 THEN <<Head(s)>> ELSE <<>>) \o Registered(Tail(s), T)

\* reset_trackers, lines 491-502: the registered keys go to the pool.
reset_trackers_submit(t) ==
    /\ At(t, "reset_trackers", "locked")
    /\ LET canonical_keys == [i \in 1..Len(Top(t).arg) |->
                                <<canonical_repo_url(Top(t).arg[i][1]), Top(t).arg[i][2]>>]
           initialized == Registered(canonical_keys, TRACKERS)
       IN  /\ pool' = initialized
           /\ stack' = Goto(t, "exit")
    /\ UNCHANGED <<envVars, disk, objs, regVars, lockVars, token_cache, exc, ret,
                   died, calls, hist>>

\* _reset_tracker, lines 484-487
reset_tracker_check(t) ==
    /\ At(t, "_reset_tracker", "start")
    /\ stack' = IF TRACKERS[Top(t).arg] = 0
                THEN Return(t)
                ELSE Call(t, "exit", Frame("reset", TRACKERS[Top(t).arg], FALSE, "-"))
    /\ UNCHANGED <<envVars, disk, objs, regVars, lockVars, token_cache, exc, thrVars, hist>>

\* TRACKERS[url_and_branch].reset() has returned.
reset_tracker_exit(t) ==
    /\ At(t, "_reset_tracker", "exit")
    /\ stack' = Return(t)
    /\ UNCHANGED <<envVars, disk, objs, regVars, lockVars, token_cache, exc, thrVars, hist>>

\* The end of `with ThreadPoolExecutor(...)`, then of the registry lock.
reset_trackers_exit(t) ==
    /\ At(t, "reset_trackers", "exit")
    /\ pool = <<>>
    /\ \A w \in Workers : stack[w] = <<>>
    /\ TRACKER_ACCESS_LOCK' = None
    /\ stack' = Return(t)
    /\ UNCHANGED <<envVars, disk, objs, TRACKERS, REPO_PATH_TO_TRACKER, lockVars,
                   token_cache, exc, thrVars, hist>>

reset_trackers(t) ==
    \/ reset_trackers_submit(t)
    \/ worker_take(t)
    \/ reset_tracker_check(t)
    \/ reset_tracker_exit(t)
    \/ reset_trackers_exit(t)

\* auto_commit, lines 342-355: the rate limit, then the initialisation check
auto_commit_check(t) ==
    /\ At(t, "auto_commit", "check")
    /\ LET k == Self(t)
           wait_time == Top(t).arg[1]
       IN  /\ time_lock' = [time_lock EXCEPT ![k] = TimeLockExit(@, t)]
           /\ IF ~Top(t).force /\ wait_time > 0
              THEN /\ stack' = Return(t)
                   /\ UNCHANGED <<objs, hist>>
              ELSE /\ objs' = [objs EXCEPT ![k].last_auto_commit_time = now]
                   /\ hist' = Attempt(k, "auto_commit", Top(t).force)
                   /\ stack' = IF is_initialized(k) THEN Goto(t, "lock") ELSE Return(t)
    /\ UNCHANGED <<envVars, disk, regVars, REPO_LOCKS, token_cache_lock,
                   token_cache, exc, thrVars>>

\* line 359: self.ensure_staging_branch()
auto_commit_staging(t) ==
    /\ At(t, "auto_commit", "locked")
    /\ stack' = Call(t, "commit", Frame("ensure_staging_branch", Self(t), FALSE, "-"))
    /\ UNCHANGED <<envVars, disk, objs, regVars, lockVars, token_cache, exc, thrVars, hist>>

\* A commit whether or not anything changed.
has_changes_always(staged, untracked) == TRUE

\* lines 362-364: staged = repo.index.diff("HEAD"); untracked =
\* repo.untracked_files; if staged or untracked
has_changes(staged, untracked) == staged # {} \/ untracked # {}

\* lines 362-373: git add --all and the commit, when there is something to
\* commit; a failing git command is not caught here.
auto_commit_commit(t) ==
    /\ At(t, "auto_commit", "commit")
    /\ LET p == Path(Self(t))
           untracked == disk[p].untracked
           staged == disk[p].staged
       IN  \/ /\ REPO_LOCKS' = [REPO_LOCKS EXCEPT ![repo_lock(Self(t))] = Release(@, t)]
              /\ disk' = IF has_changes(staged, untracked)
                         THEN [disk EXCEPT ![p] =
                                 index_commit(add_all(@),
                                              Commit("Auto-commit staged changes",
                                                     BOT_NAME, Changes(disk[p])))]
                         ELSE disk
              /\ stack' = Return(t)
              /\ UNCHANGED <<exc, faults>>
           \/ /\ Fault
              /\ \E e \in GitFailures : Raise(t, e)
              /\ UNCHANGED <<REPO_LOCKS, disk, stack>>
    /\ UNCHANGED <<now, github, objs, regVars, time_lock, token_cache_lock,
                   token_cache, thrVars, hist>>

auto_commit(t) ==
    \/ auto_commit_check(t)
    \/ auto_commit_staging(t)
    \/ auto_commit_commit(t)

\* sync_with_staging_branch, line 290: self.refresh_token(force=self._token is None)
sync_refresh(t) ==
    /\ At(t, "sync_with_staging_branch", "start")
    /\ stack' = Call(t, "guard",
                     Frame("refresh_token", Self(t), objs[Self(t)].token = NoToken, "-"))
    /\ UNCHANGED <<envVars, disk, objs, regVars, lockVars, token_cache, exc, thrVars, hist>>

\* lines 291-297: no token, or no checkout: return
sync_guard(t) ==
    /\ At(t, "sync_with_staging_branch", "guard")
    /\ stack' = IF token_is_None(Self(t)) \/ ~is_initialized(Self(t))
                THEN Return(t) ELSE Goto(t, "lock")
    /\ UNCHANGED <<envVars, disk, objs, regVars, lockVars, token_cache, exc, thrVars, hist>>

\* line 301, step 1: self.pull_remote(force=True)
sync_pull(t) ==
    /\ At(t, "sync_with_staging_branch", "locked")
    /\ stack' = Call(t, "merge", Frame("pull_remote", Self(t), TRUE, "-"))
    /\ UNCHANGED <<envVars, disk, objs, regVars, lockVars, token_cache, exc, thrVars, hist>>

\* lines 310-317, step 2: checkout staging; rebase it onto tracking with
\* -s recursive -X theirs
rebase_staging(d, tracking, staging) ==
    [checkout(d, staging) EXCEPT !.tip[staging] = rebase(@, d.tip[tracking], "theirs")]

\* lines 322-331, step 3: checkout tracking; merge --squash staging; commit
squash_merge(d, tracking, staging) ==
    index_commit(checkout(d, tracking),
                 Commit("Squash merge", BOT_NAME,
                        LET s == d.tip[staging]
                            n == MergeBase(s, d.tip[tracking])
                        IN  UNION {s[i].files : i \in (n + 1)..Len(s)}))

\* A reset that leaves staging where it was.
reset_hard_skipped(d, tracking, staging) == checkout(d, staging)

\* lines 337-338, step 5: checkout staging; reset --hard tracking
reset_hard(d, tracking, staging) ==
    [checkout(d, staging) EXCEPT !.tip[staging] = d.tip[tracking]]

\* lines 304-334, steps 2-4: both branches must exist; rebase staging onto
\* tracking (aborted and re-raised on failure); squash-merge into tracking
\* and commit; push tracking.
sync_merge(t) ==
    /\ At(t, "sync_with_staging_branch", "merge")
    /\ LET k == Self(t)
           p == Path(k)
       IN  IF ~({BranchName(k, "tracking"), BranchName(k, "staging")} \subseteq disk[p].heads)
           THEN /\ Raise(t, "GitCommandError")
                /\ UNCHANGED <<disk, stack, faults>>
           ELSE \/ /\ disk' = [disk EXCEPT ![p] =
                                 squash_merge(rebase_staging(@, BranchName(k, "tracking"),
                                                             BranchName(k, "staging")),
                                              BranchName(k, "tracking"),
                                              BranchName(k, "staging"))]
                   /\ stack' = Call(t, "reset_staging", Frame("push_branch", k, TRUE, "tracking"))
                   /\ UNCHANGED <<exc, faults>>
                \/ /\ Fault
                   /\ disk' = [disk EXCEPT ![p] = checkout(@, BranchName(k, "staging"))]
                   /\ Raise(t, "GitCommandError")
                   /\ UNCHANGED stack
    /\ UNCHANGED <<now, github, objs, regVars, lockVars, token_cache, thrVars, hist>>

\* lines 337-339, step 5: checkout staging, reset --hard tracking, push staging
sync_reset_staging(t) ==
    /\ At(t, "sync_with_staging_branch", "reset_staging")
    /\ \/ /\ disk' = [disk EXCEPT ![Path(Self(t))] =
                        reset_hard(@, BranchName(Self(t), "tracking"),
                                   BranchName(Self(t), "staging"))]
          /\ stack' = Call(t, "exit", Frame("push_branch", Self(t), TRUE, "staging"))
          /\ UNCHANGED <<exc, faults>>
       \/ /\ Fault
          /\ Raise(t, "GitCommandError")
          /\ UNCHANGED <<disk, stack>>
    /\ UNCHANGED <<now, github, objs, regVars, lockVars, token_cache, thrVars, hist>>

\* the end of `with self.repo_lock:` in sync_with_staging_branch
sync_exit(t) ==
    /\ At(t, "sync_with_staging_branch", "exit")
    /\ REPO_LOCKS' = [REPO_LOCKS EXCEPT ![repo_lock(Self(t))] = Release(@, t)]
    /\ stack' = Return(t)
    /\ UNCHANGED <<envVars, disk, objs, regVars, time_lock, token_cache_lock,
                   token_cache, exc, thrVars, hist>>

sync_with_staging_branch(t) ==
    \/ sync_refresh(t)
    \/ sync_guard(t)
    \/ sync_pull(t)
    \/ sync_merge(t)
    \/ sync_reset_staging(t)
    \/ sync_exit(t)

\* monitor_branches, line 378: time.sleep(POLL_TIMEOUT)
monitor_sleep(t) ==
    /\ At(t, "monitor_branches", "start")
    /\ stack' = [stack EXCEPT ![t][Len(stack[t])].pc = "asleep",
                              ![t][Len(stack[t])].arg = now + POLL_TIMEOUT,
                              ![t][Len(stack[t])].pn = {}]
    /\ UNCHANGED <<envVars, disk, objs, regVars, lockVars, token_cache, exc, thrVars, hist>>

\* lines 379-382: while the tracker is not usable, only self.pull_remote()
monitor_tick(t) ==
    /\ At(t, "monitor_branches", "asleep")
    /\ now >= Top(t).arg
    /\ stack' = IF ~is_initialized(Self(t)) \/ objs[Self(t)].repo_status # "OK"
                THEN Call(t, "start", Frame("pull_remote", Self(t), FALSE, "-"))
                ELSE [stack EXCEPT ![t][Len(stack[t])].pc = "flags",
                                   ![t][Len(stack[t])].branch = "tracking"]
    /\ hist' = [hist EXCEPT !.tick[Self(t)] =
                   [forced |-> FALSE, synced |-> FALSE,
                    ops |-> IF ~is_initialized(Self(t)) \/ objs[Self(t)].repo_status # "OK"
                            THEN <<"pull_remote">> ELSE <<>>]]
    /\ UNCHANGED <<envVars, disk, objs, regVars, lockVars, token_cache, exc, thrVars>>

\* line 387: with self._time_lock: (entering)
monitor_flags_enter(t) ==
    /\ At(t, "monitor_branches", "flags")
    /\ CanAcquire(time_lock[Self(t)], t)
    /\ time_lock' = [time_lock EXCEPT ![Self(t)] = Acquire(@, t)]
    /\ stack' = Goto(t, "flags_read")
    /\ UNCHANGED <<envVars, disk, objs, regVars, REPO_LOCKS, token_cache_lock,
                   token_cache, exc, thrVars, hist>>

\* lines 388-392: push_needed[branch] = time_since_last_push > PUSH_TIMEOUT
monitor_flags_read(t) ==
    /\ At(t, "monitor_branches", "flags_read")
    /\ LET k == Self(t)
           branch == Top(t).branch
           last == objs[k].last_push_time[branch]
           needed == last = NoTime \/ now - last > PUSH_TIMEOUT
       IN  /\ time_lock' = [time_lock EXCEPT ![k] = TimeLockExit(@, t)]
           /\ stack' = [stack EXCEPT
                          ![t][Len(stack[t])].pn = IF needed THEN @ \cup {branch} ELSE @,
                          ![t][Len(stack[t])].branch =
                              IF branch = "tracking" THEN "staging" ELSE "-",
                          ![t][Len(stack[t])].pc =
                              IF branch = "tracking" THEN "flags" ELSE "lock"]
    /\ UNCHANGED <<envVars, disk, objs, regVars, REPO_LOCKS, token_cache_lock,
                   token_cache, exc, thrVars, hist>>

\* History: the monitor of tracker k calls proc in its tick.
Called(k, proc) == [hist EXCEPT !.tick[k].ops = Append(@, proc)]

\* line 396: self.auto_commit()
monitor_auto_commit(t) ==
    /\ At(t, "monitor_branches", "locked")
    /\ stack' = Call(t, "compare", Frame("auto_commit", Self(t), FALSE, "-"))
    /\ hist' = Called(Self(t), "auto_commit")
    /\ UNCHANGED <<envVars, disk, objs, regVars, lockVars, token_cache, exc, thrVars>>

\* The monitor back at its auto_commit after the squash-merge.
after_sync_commit == "locked"

\* line 426, the statement after the squash-merge and its try block:
\* self.pull_remote(force=any(push_needed.values()))
after_sync == "pull"

\* A staging head that counts as idle whatever its age.
idle_always(time_since_last_commit) == TRUE

\* line 414: time_since_last_commit > MERGE_SQUASHED_AFTER_INACTIVE
idle(time_since_last_commit) == time_since_last_commit > MERGE_SQUASHED_AFTER_INACTIVE

\* lines 398-419: a flag survives when the remote ref is missing or the
\* branch is ahead of it; the squash-merge is started when the staging head
\* is older than MERGE_SQUASHED_AFTER_INACTIVE and staging has commits
\* that tracking lacks.
monitor_compare(t) ==
    /\ At(t, "monitor_branches", "compare")
    /\ LET k == Self(t)
           p == Path(k)
           f == Top(t)
       IN  IF BranchName(k, "staging") \notin disk[p].heads
           THEN /\ Raise(t, "IndexError")
                /\ UNCHANGED <<stack, hist>>
           ELSE IF BranchName(k, "tracking") \notin disk[p].heads
           THEN /\ Raise(t, "GitCommandError")
                /\ UNCHANGED <<stack, hist>>
           ELSE /\ UNCHANGED exc
                /\ LET d == disk[p]
                       staging_head == d.tip[BranchName(k, "staging")]
                                            [Len(d.tip[BranchName(k, "staging")])]
                       inactive == idle(now - staging_head.committed_date)
                       pn == {b \in f.pn :
                                IF BranchName(k, b) \notin d.refs THEN TRUE
                                ELSE count_commits_between(d.tip[BranchName(k, b)],
                                                           d.rtip[BranchName(k, b)])[1] > 0}
                       only_staging ==
                           count_commits_between(d.tip[BranchName(k, "tracking")],
                                                 d.tip[BranchName(k, "staging")])[2]
                   IN  IF inactive /\ only_staging > 0
                       THEN /\ stack' = [stack EXCEPT ![t] =
                                 Append([@ EXCEPT ![Len(@)].pc = "synced",
                                                  ![Len(@)].pn = pn],
                                        Frame("sync_with_staging_branch", k, FALSE, "-"))]
                            /\ hist' = Called(k, "sync_with_staging_branch")
                       ELSE /\ stack' = [stack EXCEPT ![t][Len(stack[t])].pn = pn,
                                                      ![t][Len(stack[t])].pc = "pull"]
                            /\ UNCHANGED hist
    /\ UNCHANGED <<envVars, disk, objs, regVars, lockVars, token_cache, thrVars>>

\* line 421: dict.fromkeys(branches, False), as the set of flagged branches
flags_cleared(push_needed) == {}

\* lines 419-421: sync_with_staging_branch() has returned;
\* push_needed = dict.fromkeys(branches, False)
monitor_synced(t) ==
    /\ At(t, "monitor_branches", "synced")
    /\ stack' = [stack EXCEPT ![t][Len(stack[t])].pn = flags_cleared(@),
                              ![t][Len(stack[t])].pc = after_sync]
    /\ hist' = [hist EXCEPT !.tick[Self(t)].synced = TRUE]
    /\ UNCHANGED <<envVars, disk, objs, regVars, lockVars, token_cache, exc, thrVars>>

\* line 422: except Exception as e: print(...)
monitor_sync_except(t) ==
    /\ Len(stack[t]) > 0
    /\ Top(t).proc = "monitor_branches" /\ Top(t).pc = "synced"
    /\ exc[t] # "none"
    /\ exc' = [exc EXCEPT ![t] = "none"]
    /\ stack' = Goto(t, after_sync)
    /\ hist' = [hist EXCEPT !.sync_failed = @ \cup {Self(t)}]
    /\ UNCHANGED <<envVars, disk, objs, regVars, lockVars, token_cache, thrVars>>

\* A pull that is never forced.
never_forced(push_needed) == FALSE

\* line 426: any(push_needed.values())
any_push_needed(push_needed) == push_needed # {}

\* line 426: self.pull_remote(force=any(push_needed.values()))
monitor_pull(t) ==
    /\ At(t, "monitor_branches", "pull")
    /\ stack' = Call(t, "push", Frame("pull_remote", Self(t), any_push_needed(Top(t).pn), "-"))
    /\ hist' = [Called(Self(t), "pull_remote") EXCEPT !.tick[Self(t)].forced = Top(t).pn # {}]
    /\ UNCHANGED <<envVars, disk, objs, regVars, lockVars, token_cache, exc, thrVars>>

\* lines 428-430: self.push_branch(branch) for every flagged branch, in the
\* order tracking, staging; then the end of `with self.repo_lock:`.
monitor_push(t) ==
    /\ At(t, "monitor_branches", "push")
    /\ IF Top(t).pn = {}
       THEN /\ REPO_LOCKS' = [REPO_LOCKS EXCEPT ![repo_lock(Self(t))] = Release(@, t)]
            /\ stack' = Goto(t, "start")
            /\ UNCHANGED hist
       ELSE /\ LET branch == IF "tracking" \in Top(t).pn THEN "tracking" ELSE "staging"
               IN  stack' = [stack EXCEPT ![t] =
                               Append([@ EXCEPT ![Len(@)].pn = @ \ {branch}],
                                      Frame("push_branch", Self(t), FALSE, branch))]
            /\ hist' = Called(Self(t), "push_branch")
            /\ UNCHANGED REPO_LOCKS
    /\ UNCHANGED <<envVars, disk, objs, regVars, time_lock, token_cache_lock,
                   token_cache, exc, thrVars>>

monitor_branches(t) ==
    \/ monitor_sleep(t)
    \/ monitor_tick(t)
    \/ monitor_flags_enter(t)
    \/ monitor_flags_read(t)
    \/ monitor_auto_commit(t)
    \/ monitor_compare(t)
    \/ monitor_synced(t)
    \/ monitor_sync_except(t)
    \/ monitor_pull(t)
    \/ monitor_push(t)

\* ------------------------------------------------- exception propagation
\* The `except` clauses without the one of the monitor loop.
CatchesOutsideMonitor(f, e) ==
    \/ f.proc = "refresh_token" /\ f.pc = "assign"
       /\ e \in {"GitHubNotInstalledError", "GitHubPermissionError"}
    \/ f.proc = "pull_remote" /\ f.pc \in {"staging", "exit"} /\ IsGitOrOSError(e)
    \/ f.proc = "reset" /\ f.pc \in {"pull", "monitor"} /\ IsGitOrOSError(e)

\* The frame's `except` clause that catches e.
Catches(f, e) ==
    \/ f.proc = "refresh_token" /\ f.pc = "assign"
       /\ e \in {"GitHubNotInstalledError", "GitHubPermissionError"}
    \/ f.proc = "pull_remote" /\ f.pc \in {"staging", "exit"} /\ IsGitOrOSError(e)
    \/ f.proc = "reset" /\ f.pc \in {"pull", "monitor"} /\ IsGitOrOSError(e)
    \/ f.proc = "monitor_branches" /\ f.pc = "synced"

\* The frame is inside its own `with self.repo_lock:` block.
InRepoLockBlock(f) ==
    \/ f.proc = "pull_remote" /\ f.pc \in {"locked", "staging", "exit"}
    \/ f.proc = "ensure_staging_branch" /\ f.pc \in {"locked", "exit"}
    \/ f.proc = "push_branch" /\ f.pc = "locked"
    \/ f.proc = "auto_commit" /\ f.pc \in {"locked", "commit"}
    \/ f.proc = "sync_with_staging_branch"
       /\ f.pc \in {"locked", "merge", "reset_staging", "exit"}
    \/ f.proc = "monitor_branches"
       /\ f.pc \in {"locked", "compare", "synced", "pull", "push"}
    \/ f.proc = "write" /\ f.force /\ f.pc \in {"locked", "file"}

\* The frame is inside the `with thread_lock:` of utils/lock.py.
InRegistryLockBlock(f) ==
    /\ f.proc \in {"get_branch_tracker", "ensure_trackers", "reset_trackers"}
    /\ f.pc \in {"locked", "exit"}

\* An exception no clause of the innermost frame catches leaves the frame:
\* its `with` blocks release their locks; leaving the outermost frame ends
\* the thread (a caller sees the exception; a pool worker stores it in the
\* future, which nobody reads).
Unwind(t) ==
    /\ Len(stack[t]) > 0
    /\ exc[t] # "none"
    /\ ~Catches(Top(t), exc[t])
    /\ REPO_LOCKS' = IF InRepoLockBlock(Top(t))
                     THEN [REPO_LOCKS EXCEPT ![repo_lock(Self(t))] = Release(@, t)]
                     ELSE REPO_LOCKS
    /\ TRACKER_ACCESS_LOCK' = IF InRegistryLockBlock(Top(t)) THEN None
                              ELSE TRACKER_ACCESS_LOCK
    /\ stack' = Return(t)
    /\ IF Len(stack[t]) = 1
       THEN /\ died' = [died EXCEPT ![t] = exc[t]]
            /\ exc' = [exc EXCEPT ![t] = "none"]
       ELSE UNCHANGED <<died, exc>>
    /\ UNCHANGED <<envVars, disk, objs, TRACKERS, REPO_PATH_TO_TRACKER, time_lock,
                   token_cache_lock, token_cache, ret, calls, pool, hist>>

\* ------------------------------------------------------------ environment
\* The clock moves on to a later instant.  A `with self._time_lock:` block
\* reads time.time() twice with nothing but arithmetic in between, so both
\* reads fall in the same instant.
AdvanceTime(to) ==
    /\ now < to
    /\ \A k \in 1..MaxTrackers : time_lock[k].owner = None
    /\ now' = to
    /\ UNCHANGED <<faults, github, disk, objs, regVars, lockVars, token_cache, stack, exc,
                   thrVars, hist>>

\* A timestamp one push interval further in the past; what is older than the
\* horizon is older than every timeout that is compared with it.
Earlier(x) == IF x = NoTime THEN NoTime ELSE Max(x - PUSH_TIMEOUT, 0)

\* A committed_date one push interval further in the past.  The idle
\* threshold reaches further back than the horizon: of a commit older than
\* the horizon it is only known that it passes the threshold at some time
\* (hour says that it is now).
EarlierDate(x, hour) ==
    IF x >= PUSH_TIMEOUT THEN x - PUSH_TIMEOUT
    ELSE IF x < 0 \/ hour THEN LongAgo ELSE 0

\* The branch tips with every commit one push interval older.
EarlierTips(tips, hour) ==
    [b \in DOMAIN tips |->
       [i \in 1..Len(tips[b]) |->
          [tips[b][i] EXCEPT !.committed_date = EarlierDate(@, hour)]]]

\* Thread t has nothing to do at this instant: it is not in a call, or it is
\* a monitor in its sleep.
Quiet(t) ==
    \/ stack[t] = <<>>
    \/ /\ At(t, "monitor_branches", "asleep")
       /\ now < Top(t).arg

\* The clock of an unbounded run: one push interval passes while no thread
\* has anything to do (the calls are short next to the interval).  Beyond the
\* horizon the clock is read relative to the present: every timestamp moves
\* one interval into the past instead.
Later ==
    /\ \A t \in Threads : Quiet(t)
    /\ IF now + PUSH_TIMEOUT <= Horizon
       THEN /\ now' = now + PUSH_TIMEOUT
            /\ UNCHANGED <<objs, token_cache, stack, ret, hist, github, disk>>
       ELSE /\ now' = now
            /\ \E hour \in BOOLEAN :
                 /\ github' = [github EXCEPT !.tip = EarlierTips(@, hour)]
                 /\ disk' = [p \in Paths |->
                               [disk[p] EXCEPT !.tip = EarlierTips(@, hour),
                                               !.rtip = EarlierTips(@, hour)]]
            /\ objs' = [k \in DOMAIN objs |->
                          [objs[k] EXCEPT
                             !.last_push_time = [b \in BranchKinds |-> Earlier(@[b])],
                             !.last_pull_time = Earlier(@),
                             !.last_merge_time = Earlier(@),
                             !.last_token_refresh_time = Earlier(@),
                             !.last_auto_commit_time = Earlier(@),
                             !.token.exp = Earlier(@)]]
            /\ token_cache' = [token_cache EXCEPT !.exp = Earlier(@)]
            /\ ret' = [t \in Threads |-> [ret[t] EXCEPT !.token.exp = Earlier(@)]]
            /\ stack' = [t \in Threads |->
                           [i \in DOMAIN stack[t] |->
                              IF stack[t][i].proc = "monitor_branches"
                                 /\ stack[t][i].pc = "asleep"
                              THEN [stack[t][i] EXCEPT !.arg = Earlier(@)]
                              ELSE stack[t][i]]]
            /\ hist' = [hist EXCEPT !.attempt =
                          [k \in 1..MaxTrackers |->
                             [op \in DOMAIN hist.attempt[k] |->
                                [hist.attempt[k][op] EXCEPT !.at = Earlier(@),
                                                            !.prev = Earlier(@)]]]]
    /\ UNCHANGED <<faults, regVars, lockVars, exc, died, calls, pool>>

\* The instants at which the clock is observed: one push interval after the
\* start, and the bound of the clock, one pull interval after the start.
Instants == {PUSH_TIMEOUT, MaxTime}

\* What the installation may do, in the order of RepoStatus.
Level(install) == CASE install = "none" -> 0 [] install = "read" -> 1 [] install = "write" -> 2

\* The owner installs the GitHub App, or widens what it may do.
installation_change(level) ==
    /\ Level(level) > Level(github.install)
    /\ github' = [github EXCEPT !.install = level]
    /\ hist' = [hist EXCEPT !.write_granted = @ \/ level = "write"]
    /\ UNCHANGED <<now, faults, disk, objs, regVars, lockVars, token_cache, stack, exc,
                   thrVars>>

\* ---------------------------------------------------------------- callers
\* A caller thread (a UI session) between two calls.
Idle(t) == t \in Callers /\ stack[t] = <<>> /\ calls[t] < MaxCalls

Invoke(t, frame) ==
    /\ Idle(t)
    /\ stack' = [stack EXCEPT ![t] = <<frame>>]
    /\ calls' = [calls EXCEPT ![t] = @ + 1]
    /\ died' = [died EXCEPT ![t] = "none"]
    /\ UNCHANGED <<envVars, disk, objs, regVars, lockVars, token_cache, exc, ret,
                   pool, hist>>

\* services/projects.py: get_branch_tracker(meta["repo_url"], meta["branch"]),
\* the first thing a session does.
call_get_branch_tracker(t, pair) ==
    /\ ret[t].obj = 0
    /\ Invoke(t, [Frame("get_branch_tracker", 0, FALSE, "-") EXCEPT !.arg = pair])

\* A session has the trackers of the pairs it names reset.
call_reset_trackers(t, pairs) ==
    Invoke(t, [Frame("reset_trackers", 0, FALSE, "-") EXCEPT !.arg = pairs])

\* services/projects.py: ensure_trackers(...) on the configured projects
call_ensure_trackers(t, pairs) ==
    /\ calls[t] = 0
    /\ Invoke(t, [Frame("ensure_trackers", 0, FALSE, "-") EXCEPT !.arg = pairs])

\* A caller calls a method of the tracker the registry gave it.
call_method(t, proc, force, branch) ==
    /\ ret[t].obj # 0
    /\ Invoke(t, Frame(proc, ret[t].obj, force, branch))

\* A caller asks for a token of the repository; the frame's force field is
\* require_write.
call_get_installation_token(t, require_write) ==
    Invoke(t, Frame("get_installation_token", 0, require_write, "-"))

\* A session writes a file into the working tree of its tracker, after
\* ensure_staging_branch(); the frame's force field says whether it does both
\* inside `with tracker.repo_lock:`.
call_write(t, locked) == call_method(t, "write", locked, "-")

write_start(t) ==
    /\ At(t, "write", "start")
    /\ stack' = Goto(t, IF Top(t).force THEN "lock" ELSE "locked")
    /\ UNCHANGED <<envVars, disk, objs, regVars, lockVars, token_cache, exc, thrVars, hist>>

write_ensure(t) ==
    /\ At(t, "write", "locked")
    /\ stack' = Call(t, "file", Frame("ensure_staging_branch", Self(t), FALSE, "-"))
    /\ UNCHANGED <<envVars, disk, objs, regVars, lockVars, token_cache, exc, thrVars, hist>>

\* The file a session writes.
File(t) == IF t = "c1" THEN "f1" ELSE "f2"

write_file(t) ==
    /\ At(t, "write", "file")
    /\ LET k == Self(t)
           p == Path(k)
       IN  /\ disk' = [disk EXCEPT ![p].untracked = @ \cup {File(t)}]
           /\ hist' = [hist EXCEPT !.writes = @ \cup
                         {[locked |-> Top(t).force,
                           on_staging |-> disk[p].HEAD = BranchName(k, "staging")]}]
           /\ REPO_LOCKS' = IF Top(t).force
                            THEN [REPO_LOCKS EXCEPT ![repo_lock(k)] = Release(@, t)]
                            ELSE REPO_LOCKS
    /\ stack' = Return(t)
    /\ UNCHANGED <<envVars, objs, regVars, time_lock, token_cache_lock, token_cache,
                   exc, thrVars>>

write(t) ==
    \/ write_start(t)
    \/ write_ensure(t)
    \/ write_file(t)

\* The files whose annotations a session saves: one that an earlier run of
\* the app has committed, and a new one.
AnnotationFiles == {"f0", "f1"}

\* services/annotations.py, save_annotations: a session saves the annotations
\* of one file of the checkout of its tracker; the frame's arg is the file.
call_save_annotations(t, f) ==
    /\ ret[t].obj # 0
    /\ disk[Path(ret[t].obj)].git
    /\ Invoke(t, [Frame("save_annotations", ret[t].obj, FALSE, "-") EXCEPT !.arg = f])

\* annotations.py line 190: _atomic_write_lines(ann_path, lines); the file is
\* an unstaged modification if git knows it, an untracked file otherwise.
save_annotations_write(t) ==
    /\ At(t, "save_annotations", "start")
    /\ LET p == Path(Self(t))
           f == Top(t).arg
       IN  disk' = IF f \in Tracked(disk[p]) \cup disk[p].staged
                   THEN [disk EXCEPT ![p].modified = @ \cup {f}]
                   ELSE [disk EXCEPT ![p].untracked = @ \cup {f}]
    /\ stack' = Goto(t, "stage")
    /\ UNCHANGED <<envVars, objs, regVars, lockVars, token_cache, exc, thrVars, hist>>

\* annotations.py line 194: repo.index.add([rel])
save_annotations_stage(t) ==
    /\ At(t, "save_annotations", "stage")
    /\ LET p == Path(Self(t))
           f == Top(t).arg
       IN  disk' = [disk EXCEPT ![p].staged = @ \cup {f},
                                ![p].modified = @ \ {f},
                                ![p].untracked = @ \ {f}]
    /\ stack' = Return(t)
    /\ UNCHANGED <<envVars, objs, regVars, lockVars, token_cache, exc, thrVars, hist>>

save_annotations(t) ==
    \/ save_annotations_write(t)
    \/ save_annotations_stage(t)

\* The files others change: one of their own, and one with annotations that
\* the app has committed to staging.
RemoteFiles == {"g", "f0"}

\* Somebody else pushes a commit to the default branch of the remote.
remote_commit ==
    /\ LET tip == github.tip[github.default]
       IN  /\ Cardinality({i \in 1..Len(tip) : tip[i].message = "external"})
                < MaxRemoteCommits
           /\ \E f \in RemoteFiles :
                 github' = [github EXCEPT !.tip[github.default] =
                              Append(@, Commit("external", Owner, {f}))]
    /\ UNCHANGED <<now, faults, disk, objs, regVars, lockVars, token_cache, stack, exc,
                   thrVars, hist>>

\* The instants around the end of the useful life of a token minted at 0.
Expiries == {TokenLifetime - TOKEN_REFRESH_SLOP_SECONDS + d : d \in 0..1}

\* ------------------------------------------------------ the pure functions
Seqs(S, n) == UNION {[1..k -> S] : k \in 0..n}

\* URLs: a scheme and host part (or the scp-like prefix), then a path.
UrlPrefixes ==
    {<<"https://", "github.com", "/">>, <<"https://", "u:p@", "GitHub.com", "/">>,
     <<"http://", "www.github.com", "/">>, <<"https://", "gitlab.com", "/">>,
     <<"git@github.com:">>}
PathPieces == {"/", "acme", ".git", ";", "tree"}
UrlInputs == {pre \o path : pre \in UrlPrefixes, path \in Seqs(PathPieces, MaxPathLen)}

\* The spellings of the URL of repository owner/repo.
Spellings(owner, repo) ==
    {<<"https://", "github.com", "/">> \o owner \o <<"/">> \o repo,
     <<"https://", "github.com", "/">> \o owner \o <<"/">> \o repo \o <<".git">>,
     <<"https://", "github.com", "/">> \o owner \o <<"/">> \o repo \o <<"/">>,
     <<"https://", "u:p@", "github.com", "/">> \o owner \o <<"/">> \o repo \o <<".git">>,
     <<"http://", "www.github.com", "/">> \o owner \o <<"/">> \o repo,
     <<"git@github.com:">> \o owner \o <<"/">> \o repo,
     <<"git@github.com:">> \o owner \o <<"/">> \o repo \o <<".git">>}
Repos == {<<<<"acme">>, <<"tools">>>>, <<<<"acme">>, <<"acme", "tools">>>>}

\* Branch names: the sequences of their characters (" " stands for any
\* character outside [A-Za-z0-9._-] that is not a path separator).
BranchChars == {"a", "/", "_", ".", " "}
BranchInputs == Seqs(BranchChars, MaxBranchLen)

\* parse_github_url(u) is called.
apply_parse_github_url(u) ==
    /\ hist' = [hist EXCEPT !.applied = [op |-> "parse_github_url", url |-> u,
                                         branch |-> <<>>, out |-> parse_github_url(u)]]
    /\ UNCHANGED <<envVars, disk, objs, regVars, lockVars, token_cache, stack, exc,
                   thrVars>>

\* repo_dest(u, branch) is called on a spelling of the URL of a repository.
apply_repo_dest(r, u, branch) ==
    /\ hist' = [hist EXCEPT !.applied = [op |-> "repo_dest", url |-> r,
                                         branch |-> branch, out |-> repo_dest(u, branch)]]
    /\ UNCHANGED <<envVars, disk, objs, regVars, lockVars, token_cache, stack, exc,
                   thrVars>>

\* ----------------------------------------------------------- specification
\* The remote at the start: the default branch alone, or with the staging
\* branch an earlier run of the app pushed, one auto-commit ahead.
Remotes ==
    {[b \in {BranchMain} |-> Root],
     [b \in {BranchMain, StagingName(BranchMain)} |->
        IF b = BranchMain THEN Root
        ELSE Append(Root, Old(Commit("Auto-commit staged changes", BOT_NAME, {"f0"})))]}

Start ==
    /\ now = 0
    /\ \E public \in BOOLEAN, install \in {"none", "read", "write"}, tip \in Remotes :
          github = [public |-> public, install |-> install, default |-> BranchMain,
                    refs |-> DOMAIN tip, tip |-> tip]
    /\ disk = [p \in Paths |-> [git |-> FALSE, heads |-> {}, HEAD |-> <<>>, refs |-> {},
                              tip |-> <<>>, rtip |-> <<>>, untracked |-> {},
                              staged |-> {}, modified |-> {}, url |-> <<>>]]
    /\ objs = <<>>
    /\ TRACKERS = [key \in Keys |-> 0]
    /\ REPO_PATH_TO_TRACKER = [p \in Paths |-> 0]
    /\ TRACKER_ACCESS_LOCK = None
    /\ REPO_LOCKS = [p \in Paths |-> FreeLock]
    /\ time_lock = [k \in 1..MaxTrackers |-> FreeLock]
    /\ token_cache = NoToken
    /\ token_cache_lock = None
    /\ stack = [t \in Threads |-> <<>>]
    /\ exc = [t \in Threads |-> "none"]
    /\ ret = [t \in Threads |-> [token |-> NoToken, obj |-> 0]]
    /\ died = [t \in Threads |-> "none"]
    /\ calls = [t \in Callers |-> 0]
    /\ pool = <<>>
    /\ hist = [attempt |-> [k \in 1..MaxTrackers |->
                              [op \in {"refresh_token", "pull_remote", "auto_commit",
                                       "tracking", "staging"} |->
                                 [at |-> NoTime, prev |-> NoTime, force |-> FALSE]]],
               constructed |-> <<>>,
               pushed |-> {},
               pushes |-> {},
               ensured |-> {},
               writes |-> {},
               pulled |-> [k \in 1..MaxTrackers |-> "none"],
               sync_failed |-> {},
               tick |-> [k \in 1..MaxTrackers |->
                           [forced |-> FALSE, synced |-> FALSE, ops |-> <<>>]],
               applied |-> [op |-> "none", url |-> <<>>, branch |-> <<>>, out |-> <<>>],
               write_granted |-> github.install = "write"]

Init == faults = MaxFaults /\ Start

\* One step of the construction of a tracker (__init__, reset and what they
\* call), on the thread that executes it.
Construction(t) ==
    \/ get_installation_token(t)
    \/ time_lock_enter(t)
    \/ repo_lock_enter(t)
    \/ refresh_token(t)
    \/ pull_remote(t)
    \/ init_update(t)
    \/ ensure_staging_branch(t)
    \/ push_branch(t)
    \/ reset(t)
    \/ BranchTracker(t)
    \/ Unwind(t)

\* One step of a method of a tracker, on the thread that executes it.
Methods(t) ==
    \/ Construction(t)
    \/ auto_commit(t)
    \/ sync_with_staging_branch(t)

\* The life of one tracker: a session asks the registry for it, which
\* constructs it and starts its monitor; the clock and the installation
\* change under it.
Next ==
    \/ \E t \in Threads : Methods(t)
    \/ \E t \in Threads : monitor_branches(t)
    \/ \E t \in Threads : get_branch_tracker(t)
    \/ call_get_branch_tracker("c1", <<UrlHttps, BranchMain>>)
    \/ \E to \in Instants : AdvanceTime(to)
    \/ \E level \in {"read", "write"} : installation_change(level)

Spec == Init /\ [][Next]_vars

\* Two sessions on two trackers that share one checkout (their branch names
\* sanitize to the same directory): the first calls a method of its tracker
\* while the second has its tracker constructed.  The monitors are in their
\* first sleep.
NextShared ==
    \/ \E t \in Threads : Methods(t)
    \/ \E t \in Threads : monitor_sleep(t)
    \/ \E t \in Threads : get_branch_tracker(t)
    \/ call_get_branch_tracker("c1", <<UrlHttps, BranchSlash>>)
    \/ call_get_branch_tracker("c2", <<UrlSsh, BranchUnder>>)
    \/ call_method("c1", "pull_remote", TRUE, "-")
    \/ \E b \in BranchKinds : call_method("c1", "push_branch", TRUE, b)
    \/ call_method("c1", "auto_commit", TRUE, "-")
    \/ call_method("c1", "sync_with_staging_branch", FALSE, "-")

InitShared == Init /\ github.public /\ github.install # "none"

SpecShared == InitShared /\ [][NextShared]_vars

\* A session calls the rate-limited methods of a tracker, forced and not, or
\* resets it, while the tracker's monitor polls; the clock passes one push
\* interval.
NextSession ==
    \/ \E t \in Threads : Methods(t)
    \/ \E t \in Threads : monitor_branches(t)
    \/ \E t \in Threads : get_branch_tracker(t)
    \/ call_get_branch_tracker("c1", <<UrlHttps, BranchMain>>)
    \/ \E force \in BOOLEAN :
          \/ call_method("c1", "pull_remote", force, "-")
          \/ \E b \in BranchKinds : call_method("c1", "push_branch", force, b)
          \/ call_method("c1", "auto_commit", force, "-")
    \/ call_method("c1", "reset", FALSE, "-")
    \/ AdvanceTime(PUSH_TIMEOUT)

InitSession == Init /\ github.public /\ github.install # "none"

SpecSession == InitSession /\ [][NextSession]_vars

\* services/projects.py, discover_projects: ensure_trackers on the pairs of
\* the configured projects (two projects of one repository and branch, the
\* URL spelled in two ways), then get_branch_tracker.
ProjectLists ==
    {<<<<UrlHttps, BranchMain>>, <<UrlSsh, BranchMain>>>>}

NextRegistry ==
    \/ \E t \in Threads : Construction(t)
    \/ \E t \in Threads : monitor_sleep(t)
    \/ \E t \in Threads : get_branch_tracker(t)
    \/ \E t \in Threads : ensure_trackers(t)
    \/ \E pairs \in ProjectLists : call_ensure_trackers("c1", pairs)
    \/ call_get_branch_tracker("c1", <<UrlHttps, BranchMain>>)

SpecRegistry == Init /\ [][NextRegistry]_vars

\* Two sessions ask for tokens, with and without the need to write, while
\* the cached token nears its expiry and the installation widens.
NextToken ==
    \/ \E t \in Callers : get_installation_token(t)
    \/ \E t \in Callers : Unwind(t)
    \/ \E t \in Callers, require_write \in BOOLEAN :
          call_get_installation_token(t, require_write)
    \/ \E to \in Expiries : AdvanceTime(to)
    \/ \E level \in {"read", "write"} : installation_change(level)

InitToken == Init /\ github.public /\ github.refs = {BranchMain}

SpecToken == InitToken /\ [][NextToken]_vars

\* Two sessions of one project, on the default branch or on another one: the
\* first writes a file, under the repo lock or not; the second forces a
\* commit, a squash-merge or a pull; somebody pushes to the remote meanwhile.
\* The monitor is in its first sleep.
NextGit ==
    \/ \E t \in Threads : Methods(t)
    \/ \E t \in Threads : monitor_sleep(t)
    \/ \E t \in Threads : get_branch_tracker(t)
    \/ \E t \in Callers : write(t)
    \/ \E b \in {BranchMain, BranchSlash} : call_get_branch_tracker("c1", <<UrlHttps, b>>)
    \/ /\ objs # <<>>
       /\ call_get_branch_tracker("c2", <<UrlHttps, objs[1].tracking_branch>>)
    \/ \E locked \in BOOLEAN : call_write("c1", locked)
    \/ call_method("c2", "auto_commit", TRUE, "-")
    \/ call_method("c2", "sync_with_staging_branch", FALSE, "-")
    \/ call_method("c2", "pull_remote", TRUE, "-")
    \/ remote_commit

InitGit == Init /\ github.public /\ github.install # "none"

SpecGit == InitGit /\ [][NextGit]_vars

\* The URL and path functions, applied to every input.
NextUrls ==
    \/ /\ hist.applied.op = "none"
       /\ \E u \in UrlInputs : apply_parse_github_url(u)
    \/ /\ hist.applied.op = "none"
       /\ \E r \in Repos, branch \in BranchInputs :
             \E u \in Spellings(r[1], r[2]) : apply_repo_dest(r, u, branch)

InitUrls == Init /\ github.public /\ github.install = "none" /\ github.refs = {BranchMain}

SpecUrls == InitUrls /\ [][NextUrls]_vars

\* A session saves the annotations of a file of its checkout, which stages
\* them, while a second session forces an auto-commit.  The monitor is in
\* its first sleep.
SaveStep(t) ==
    \/ Construction(t)
    \/ auto_commit(t)
    \/ monitor_sleep(t)
    \/ get_branch_tracker(t)
    \/ save_annotations(t)

NextSave ==
    \/ \E t \in Threads : SaveStep(t)
    \/ \E t \in Callers : call_get_branch_tracker(t, <<UrlHttps, BranchMain>>)
    \/ \E f \in AnnotationFiles : call_save_annotations("c1", f)
    \/ call_method("c2", "auto_commit", TRUE, "-")

SpecSave == Init /\ [][NextSave]_vars

\* What a session asks reset_trackers for: one tracker named twice, the URL
\* spelled in two ways, or a pair that may not be registered.
ResetLists ==
    {<<<<UrlHttps, BranchMain>>, <<UrlSsh, BranchMain>>>>, <<<<UrlHttps, BranchSlash>>>>}

\* One step of thread t where the installation grants write from the start
\* and staging never runs ahead of tracking: refresh_token has no permission
\* error to handle and no squash-merge is due.
ResetStep(t) ==
    \/ get_installation_token(t)
    \/ time_lock_enter(t)
    \/ repo_lock_enter(t)
    \/ refresh_token_check(t) \/ refresh_token_ok(t) \/ refresh_token_status(t)
    \/ pull_remote(t)
    \/ init_update(t)
    \/ ensure_staging_branch(t)
    \/ push_branch(t)
    \/ reset(t)
    \/ BranchTracker(t)
    \/ Unwind(t)
    \/ auto_commit(t)
    \/ monitor_sleep(t) \/ monitor_tick(t) \/ monitor_flags_enter(t)
    \/ monitor_flags_read(t) \/ monitor_auto_commit(t) \/ monitor_compare(t)
    \/ monitor_pull(t) \/ monitor_push(t)
    \/ get_branch_tracker(t)
    \/ reset_trackers(t)

\* A session has a tracker constructed and has trackers reset, by the
\* workers of reset_trackers; between the calls of the session the clock
\* passes a poll interval and the monitor of the tracker polls.
NextReset ==
    \/ \E t \in Threads : ResetStep(t)
    \/ call_get_branch_tracker("c1", <<UrlHttps, BranchMain>>)
    \/ \E pairs \in ResetLists : call_reset_trackers("c1", pairs)
    \/ /\ \A t \in Callers \cup Workers : stack[t] = <<>>
       /\ AdvanceTime(PUSH_TIMEOUT)

InitReset ==
    Init /\ github.public /\ github.install = "write" /\ github.refs = {BranchMain}

SpecReset == InitReset /\ [][NextReset]_vars

\* One step of thread t in a run in which no call fails: the handlers of a
\* failure inside reset and inside the monitor's squash-merge have nothing
\* to handle.
Step(t) ==
    \/ get_installation_token(t)
    \/ time_lock_enter(t)
    \/ repo_lock_enter(t)
    \/ refresh_token(t)
    \/ pull_remote(t)
    \/ init_update(t)
    \/ ensure_staging_branch(t)
    \/ push_branch(t)
    \/ reset_clear(t) \/ reset_pull(t) \/ reset_monitor(t) \/ reset_thread(t)
    \/ BranchTracker(t)
    \/ Unwind(t)
    \/ auto_commit(t)
    \/ sync_with_staging_branch(t)
    \/ monitor_sleep(t) \/ monitor_tick(t) \/ monitor_flags_enter(t)
    \/ monitor_flags_read(t) \/ monitor_auto_commit(t) \/ monitor_compare(t)
    \/ monitor_synced(t) \/ monitor_pull(t) \/ monitor_push(t)
    \/ get_branch_tracker(t)
    \/ write(t)

\* An unbounded run in which no git, OS or HTTP call fails, on a private
\* repository: a session has the tracker of a branch other than the default
\* one constructed and writes a file under the repo lock; a second session
\* forces a pull; the monitor polls; the installation is granted write
\* access meanwhile.  Every thread
\* that can run does run in the end (the threads are OS threads), and time
\* passes.
NextLive ==
    \/ \E t \in Threads : Step(t)
    \/ call_get_branch_tracker("c1", <<UrlHttps, BranchSlash>>)
    \/ /\ objs # <<>>
       /\ call_get_branch_tracker("c2", <<UrlHttps, objs[1].tracking_branch>>)
    \/ call_write("c1", TRUE)
    \/ call_method("c2", "pull_remote", TRUE, "-")
    \/ installation_change("write")
    \/ Later

InitLive == faults = 0 /\ Start /\ ~github.public /\ github.refs = {BranchMain}

SpecLive ==
    /\ InitLive
    /\ [][NextLive]_vars
    /\ \A t \in Threads : WF_vars(Step(t))
    /\ WF_vars(Later)

\* ------------------------------------------------------------- properties
Frames(t) == {stack[t][i] : i \in 1..Len(stack[t])}
Trackers == 1..Len(objs)
Statuses == {"INACCESSIBLE", "READ_ONLY", "OK"}

\* C1: for every canonical (repo_url, branch) key at most one BranchTracker
\* is ever constructed, also when ensure_trackers is given a list in which
\* the same canonical pair occurs twice.
C1_OneTrackerPerKey ==
    \A i, j \in 1..Len(hist.constructed) :
        i # j => hist.constructed[i] # hist.constructed[j]

\* The frame is inside a section that mutates the working tree: the clone or
\* update of pull_remote, ensure_staging_branch, the stage-and-commit of
\* auto_commit, the push of push_branch, sync_with_staging_branch.
InSection(f) ==
    \/ f.proc \in {"_init", "_update"}
    \/ f.proc = "ensure_staging_branch" /\ f.pc \in {"locked", "exit"}
    \/ f.proc = "auto_commit" /\ f.pc = "commit"
    \/ f.proc = "push_branch" /\ f.pc = "locked"
    \/ f.proc = "sync_with_staging_branch"
       /\ f.pc \in {"locked", "merge", "reset_staging", "exit"}
InSectionOf(t, p) == \E f \in Frames(t) : InSection(f) /\ Path(f.self) = p

C3_SyncHoldsRepoLock ==
    \A t \in Threads : \A f \in Frames(t) :
        (f.proc = "sync_with_staging_branch"
         /\ f.pc \in {"locked", "merge", "reset_staging", "exit"})
        => REPO_LOCKS[Path(f.self)].owner = t

\* C3, its case: the squash-merge is between its forced pull and its merge
\* while another thread waits for the lock of the same path.
C3_Witness ==
    \E t1, t2 \in Threads :
        /\ t1 # t2
        /\ At(t1, "sync_with_staging_branch", "merge")
        /\ At(t2, "pull_remote", "lock")
        /\ Path(Self(t1)) = Path(Self(t2))

\* C4: a thread that holds a tracker's time lock is inside the time-lock
\* block of its innermost frame, at the rate-limit check or at the monitor's
\* reading of a push timestamp: it is at no step that performs git or HTTP
\* I/O and at no step that acquires the repo lock.
C4_TimeLockOnlyAroundTimestamps ==
    \A k \in 1..MaxTrackers : \A t \in Threads :
        time_lock[k].owner = t =>
            /\ Len(stack[t]) > 0
            /\ Top(t).self = k
            /\ \/ Top(t).pc = "check"
                  /\ Top(t).proc \in {"refresh_token", "pull_remote", "push_branch",
                                      "auto_commit"}
               \/ Top(t).pc = "flags_read" /\ Top(t).proc = "monitor_branches"

\* C4, its case: a thread holds the time lock of a tracker while another
\* thread holds the repo lock of the tracker's path.
C4_Witness ==
    \E k \in Trackers : \E t1, t2 \in Threads :
        /\ t1 # t2
        /\ time_lock[k].owner = t1
        /\ REPO_LOCKS[Path(k)].owner = t2

\* C5 as claimed: the token-cache mutex is never held by a thread that
\* holds a repo lock.
C5_CacheLockNeverUnderRepoLock ==
    \A t \in Threads : token_cache_lock = t =>
        \A p \in Paths : REPO_LOCKS[p].owner # t

\* C5 as amended: the token-cache mutex is innermost.  Its holder is at the
\* read or at the write of the cache entry (no HTTP or git I/O, no other
\* lock acquired) and holds no time lock; it may hold a repo lock.
C5_CacheLockInnermost ==
    \A t \in Threads : token_cache_lock = t =>
        /\ Len(stack[t]) > 0
        /\ Top(t).proc = "get_installation_token"
        /\ Top(t).pc \in {"cache_read", "store"}
        /\ \A k \in 1..MaxTrackers : time_lock[k].owner # t

\* C5, its case: the token-cache mutex is held under a repo lock.
C5_Witness ==
    \E t \in Threads :
        /\ token_cache_lock = t
        /\ \E p \in Paths : REPO_LOCKS[p].owner = t

\* C6: a transient git, OS or network error raised during a monitor tick
\* never terminates the monitor thread.
C6_MonitorSurvivesTransientErrors ==
    \A m \in Monitors : ~IsGitOrOSError(died[m])

\* C7 as claimed: a tracker's status changes only by a step of refresh_token.
C7_StatusOnlyFromRefreshToken ==
    [][\A k \in Trackers :
          objs'[k].repo_status # objs[k].repo_status =>
              \E t \in Threads :
                  /\ Len(stack[t]) > 0 /\ stack'[t] # stack[t]
                  /\ Top(t).self = k /\ Top(t).proc = "refresh_token"]_vars

\* C7 as amended: a tracker's status changes only by a step of refresh_token,
\* which sets one of the three statuses, or by the first step of reset,
\* which clears it.
C7_StatusFromRefreshTokenOrReset ==
    [][\A k \in Trackers :
          objs'[k].repo_status # objs[k].repo_status =>
              \E t \in Threads :
                  /\ Len(stack[t]) > 0 /\ stack'[t] # stack[t]
                  /\ Top(t).self = k
                  /\ \/ /\ Top(t).proc = "refresh_token"
                        /\ objs'[k].repo_status \in Statuses
                     \/ /\ Top(t).proc = "reset" /\ Top(t).pc = "start"
                        /\ objs'[k].repo_status = None]_vars

\* C7, its case: a session's reset has cleared the status of a tracker whose
\* refresh_token had set it, and is about to pull.
C7_Witness ==
    \E t \in Callers :
        /\ Len(stack[t]) > 0
        /\ stack[t][1].proc = "reset" /\ stack[t][1].pc = "monitor"
        /\ hist.attempt[stack[t][1].self]["refresh_token"].prev # NoTime
        /\ objs[stack[t][1].self].repo_status \in Statuses

\* No reset of tracker k is in progress.
Settled(k) ==
    \A t \in Threads : \A f \in Frames(t) : ~(f.proc = "reset" /\ f.self = k)

\* C8: once the construction of a tracker (or a reset) has returned, its
\* status is one of INACCESSIBLE, READ_ONLY and OK.
C8_StatusDefinedAfterReset ==
    \A k \in Trackers :
        (TRACKERS[objs[k].key] = k /\ Settled(k)) => objs[k].repo_status \in Statuses

\* C9: a tracker of a public repository without an installation reports a
\* status that allows reads once its anonymous clone has succeeded, and
\* no tracker pushes before an installation has granted write permission.
C9_PublicCloneReadable ==
    /\ \A k \in Trackers :
          (/\ TRACKERS[objs[k].key] = k /\ Settled(k)
           /\ github.public /\ github.install = "none" /\ faults = MaxFaults
           /\ is_initialized(k) /\ ~objs[k].is_private)
          => objs[k].repo_status \in {"READ_ONLY", "OK"}
    /\ hist.pushed # {} => hist.write_granted

\* The history key of the rate-limited method of frame f.
Op(f) == IF f.proc = "push_branch" THEN f.branch ELSE f.proc

\* C10: at the rate-limit check of pull_remote, push_branch, auto_commit or
\* refresh_token the call starts an attempt exactly when it is forced or
\* the operation's own previous attempt started at least one interval ago
\* (for a pull: and the status is not INACCESSIBLE); else it returns and
\* changes nothing.  The two push timers are read separately, and of two
\* threads calling together the second sees the first one's attempt.
C10_RateLimit ==
    [][\A t \in Threads :
          (/\ Running(t) /\ Top(t).pc = "check" /\ stack'[t] # stack[t]
           /\ Top(t).proc \in {"refresh_token", "pull_remote", "push_branch",
                               "auto_commit"})
          => LET f == Top(t)
                 last == hist.attempt[f.self][Op(f)].at
                 due == last = NoTime \/ now - last >= Timeout(f)
                 open == f.proc = "pull_remote"
                         => objs[f.self].repo_status # "INACCESSIBLE"
             IN  IF f.force \/ (due /\ open)
                 THEN hist'.attempt[f.self][Op(f)] =
                          [at |-> now, prev |-> last, force |-> f.force]
                 ELSE UNCHANGED <<objs, hist>>]_vars

\* C10, its case: a non-forced push of tracking is at its check and due,
\* while the last push of staging started less than one interval ago.
C10_Witness ==
    \E t \in Threads :
        /\ At(t, "push_branch", "check")
        /\ ~Top(t).force /\ Top(t).branch = "tracking"
        /\ hist.attempt[Self(t)]["tracking"].at = NoTime
        /\ hist.attempt[Self(t)]["staging"].at # NoTime
        /\ now - hist.attempt[Self(t)]["staging"].at < PUSH_TIMEOUT

\* C11: when push_branch or sync_with_staging_branch finds no token after
\* its token refresh, the call returns at once without raising, and the
\* checkout, the remote and the record of pushes are left as they were.
C11_NoTokenNoOp ==
    [][\A t \in Threads :
          (/\ Running(t) /\ stack'[t] # stack[t]
           /\ \/ Top(t).proc = "push_branch" /\ Top(t).pc = "token"
              \/ Top(t).proc = "sync_with_staging_branch" /\ Top(t).pc = "guard"
           /\ objs[Top(t).self].token = NoToken)
          => /\ stack'[t] = SubSeq(stack[t], 1, Len(stack[t]) - 1)
             /\ exc'[t] = "none"
             /\ UNCHANGED <<disk, github>>
             /\ hist'.pushes = hist.pushes]_vars

\* C11, its case: a squash-merge of a cloned repository reaches its token
\* check without a token, the installation granting no write.
C11_Witness ==
    \E t \in Threads :
        /\ At(t, "sync_with_staging_branch", "guard")
        /\ objs[Self(t)].token = NoToken
        /\ objs[Self(t)].repo_status = "READ_ONLY"
        /\ is_initialized(Self(t))

\* C12: every push of tracking is issued without force and every push of
\* staging with force, whatever the force argument of push_branch was.
C12_ForceOnlyStaging ==
    \A r \in hist.pushes : r.force = (r.branch = "staging")

\* C12, its case: tracking was pushed by a call that bypassed the rate
\* limit, and staging by one that did not.
C12_Witness ==
    /\ \E r \in hist.pushes : r.branch = "tracking" /\ r.asked
    /\ \E r \in hist.pushes : r.branch = "staging" /\ ~r.asked

\* C13: get_installation_token returns the cached token only when at least
\* the safety margin is left of its life and, when write is required, it
\* permits writing; otherwise it goes on to mint.  The minted token always
\* replaces the cache entry, and it is returned unless write is required
\* and it does not permit writing, which raises GitHubPermissionError.
C13_TokenCache ==
    [][\A t \in Callers :
          (/\ Running(t) /\ stack'[t] # stack[t]
           /\ Top(t).proc = "get_installation_token")
          => LET require_write == Top(t).force
                 returned == /\ stack'[t] = SubSeq(stack[t], 1, Len(stack[t]) - 1)
                             /\ exc'[t] = "none"
             IN  /\ Top(t).pc = "cache_read" =>
                       IF /\ token_cache # NoToken
                          /\ token_cache.exp - now >= TOKEN_REFRESH_SLOP_SECONDS
                          /\ (require_write => token_cache.perm = "write")
                       THEN returned /\ ret'[t].token = token_cache
                       ELSE /\ Len(stack'[t]) = Len(stack[t])
                            /\ stack'[t][Len(stack[t])].pc = "mint"
                 /\ Top(t).pc = "store" =>
                       /\ token_cache' = ret[t].token
                       /\ IF require_write /\ ret[t].token.perm # "write"
                          THEN exc'[t] = "GitHubPermissionError"
                          ELSE returned /\ ret'[t].token = ret[t].token]_vars

\* C13, its case: a token is asked for while the cached one has less than
\* the safety margin left.
C13_Witness ==
    \E t \in Callers :
        /\ At(t, "get_installation_token", "cache_read")
        /\ token_cache # NoToken
        /\ token_cache.exp > now
        /\ token_cache.exp - now < TOKEN_REFRESH_SLOP_SECONDS

C15_NoTokenOnDisk ==
    \A p \in Paths :
        disk[p].git => \A i \in 1..Len(disk[p].url) : disk[p].url[i] # Credentials

\* C19: whenever the checkout of a tracker exists and nobody holds its repo
\* lock, the tracking branch and the staging branch are local branches.
C19_BothBranchesLocal ==
    \A k \in Trackers :
        (is_initialized(k) /\ REPO_LOCKS[Path(k)].owner = None)
        => {BranchName(k, "tracking"), BranchName(k, "staging")}
              \subseteq disk[Path(k)].heads

\* The thread t takes a step of the frame on top of its stack.
Steps(t) == stack'[t] # stack[t] \/ exc'[t] # exc[t]

\* C16: when ensure_staging_branch returns normally the staging branch is a
\* local branch and it is checked out; and a call that finds staging checked
\* out leaves the checkout and the remote as they are and pushes nothing.
C16_EnsureStagingIdempotent ==
    [][\A t \in Threads :
          /\ (At(t, "ensure_staging_branch", "exit") /\ Steps(t))
             => LET d == disk'[Path(Top(t).self)]
                    staging == BranchName(Top(t).self, "staging")
                IN  staging \in d.heads /\ d.HEAD = staging
          /\ (/\ At(t, "ensure_staging_branch", "locked") /\ Steps(t)
              /\ BranchName(Top(t).self, "staging") \in disk[Path(Top(t).self)].heads
              /\ disk[Path(Top(t).self)].HEAD = BranchName(Top(t).self, "staging"))
             => /\ disk' = disk
                /\ github' = github
                /\ hist'.pushes = hist.pushes
                /\ Len(stack'[t]) <= Len(stack[t])]_vars

\* A second call, after one that returned, has switched to staging and is
\* about to return.
C16_Witness ==
    \E t \in Threads :
        /\ At(t, "ensure_staging_branch", "exit")
        /\ Top(t).self \in hist.ensured
        /\ disk[Path(Top(t).self)].HEAD = BranchName(Top(t).self, "staging")

\* The frame on top of the stack of t is left in this step.
Leaves(t) == Len(stack'[t]) < Len(stack[t])

SyncReturns(t) ==
    Running(t) /\ Top(t).proc = "sync_with_staging_branch" /\ Leaves(t)

\* Local staging and local tracking are the same commit in checkout d.
SameCommit(d, k) ==
    /\ {BranchName(k, "tracking"), BranchName(k, "staging")} \subseteq d.heads
    /\ d.tip[BranchName(k, "staging")] = d.tip[BranchName(k, "tracking")]

\* C18 as stated: whenever sync_with_staging_branch returns without raising,
\* local staging and local tracking are the same commit.
C18_SyncLeavesStagingAtTracking ==
    [][\A t \in Threads :
          SyncReturns(t) => SameCommit(disk'[Path(Top(t).self)], Top(t).self)]_vars

\* C18: whenever a call of sync_with_staging_branch that found a
\* write-capable token and a checkout returns without raising, local staging
\* and local tracking are the same commit.
C18_SyncPastGuardLeavesStagingAtTracking ==
    [][\A t \in Threads :
          (SyncReturns(t) /\ Top(t).pc = "exit")
          => SameCommit(disk'[Path(Top(t).self)], Top(t).self)]_vars

\* A squash-merge is about to return after the branches had diverged both
\* ways: tracking has a commit pulled from the remote and the squash of a
\* commit that was only on staging.
C18_Witness ==
    \E t \in Threads :
        /\ At(t, "sync_with_staging_branch", "exit")
        /\ LET tip == disk[Path(Top(t).self)].tip[BranchName(Top(t).self, "tracking")]
           IN  /\ \E i \in 1..Len(tip) : tip[i].message = "external"
               /\ \E i \in 1..Len(tip) :
                     tip[i].message = "Squash merge" /\ tip[i].files # {}

C21_RepoDestPerBranch ==
    hist.applied.op = "repo_dest"
    => LET a == hist.applied
       IN  \A u \in Spellings(a.url[1], a.url[2]) :
               /\ repo_dest(u, a.branch) = a.out
               /\ \A b \in BranchInputs \ {<<>>, a.branch} :
                     a.branch # <<>> => repo_dest(u, b) # a.out

\* C22: the repo_url of an accepted URL is accepted and is its own repo_url.
C22_CanonicalIdempotent ==
    (hist.applied.op = "parse_github_url" /\ hist.applied.out.ok)
    => LET again == parse_github_url(hist.applied.out.repo_url)
       IN  again.ok /\ again.repo_url = hist.applied.out.repo_url

\* C23: the latest clone or update of a READ_ONLY tracker, of a repository
\* the installation can read, was not given up for want of a token.
C23_ReadOnlyKeepsPulling ==
    \A k \in Trackers :
        (objs[k].repo_status = "READ_ONLY" /\ github.install = "read")
        => hist.pulled[k] # "skipped"

\* Tracker 1 is usable: its checkout exists and its status is OK.
Usable == Len(objs) >= 1 /\ is_initialized(1) /\ objs[1].repo_status = "OK"

\* File f is in a commit of the local staging branch of tracker 1.
Committed(f) ==
    LET d == disk[Path(1)]
        b == BranchName(1, "staging")
    IN  Len(objs) >= 1 /\ b \in d.heads /\ \E i \in 1..Len(d.tip[b]) : f \in d.tip[b][i].files

\* File f is in a commit of the remote staging ref of tracker 1.
OnRemoteStaging(f) ==
    LET b == BranchName(1, "staging")
    IN  Len(objs) >= 1 /\ b \in github.refs /\ \E i \in 1..Len(github.tip[b]) : f \in github.tip[b][i].files

\* C24: with a usable tracker, fair scheduling and no failing call, a file
\* written into the working tree is eventually in a commit on staging, and
\* a file in a commit on staging is eventually in one on the remote staging
\* ref.
C24_WrittenFilesArePushed ==
    /\ (Usable /\ "f1" \in disk[Path(1)].untracked) ~> Committed("f1")
    /\ (Usable /\ Committed("f1")) ~> OnRemoteStaging("f1")

\* C25: once the installation grants write access, fair scheduling and no
\* failing call bring a tracker that is INACCESSIBLE or READ_ONLY to OK.
C25_MonitorRecoversAccess ==
    (/\ Len(objs) >= 1
     /\ objs[1].repo_status \in {"INACCESSIBLE", "READ_ONLY"}
     /\ github.install = "write")
    ~> (Len(objs) >= 1 /\ objs[1].repo_status = "OK")

\* The position of a monitor's frame in its tick.
Rank(pc) ==
    CASE pc = "start" -> 0 [] pc = "asleep" -> 1 [] pc \in {"flags", "flags_read"} -> 2
      [] pc = "lock" -> 3 [] pc = "locked" -> 4 [] pc = "compare" -> 5
      [] pc = "synced" -> 6 [] pc = "pull" -> 7 [] pc = "push" -> 8

\* Thread t runs monitor_branches and is inside a call made by it.
MonitorCalls(t, proc) ==
    /\ Len(stack[t]) >= 2
    /\ stack[t][1].proc = "monitor_branches"
    /\ stack[t][2].proc = proc

\* C26: in a tick of a usable tracker the monitor calls auto_commit, settles
\* the needs-push flags against the remote refs, runs the squash-merge if it
\* is triggered, pulls and then pushes, in this order; the pull is forced
\* exactly when a branch is still flagged; a push of the tick comes after a
\* forced pull of the same tick, and no push comes after a squash-merge that
\* returned.
C26_TickOrder ==
    /\ [](\A t \in Threads :
            /\ MonitorCalls(t, "auto_commit") => stack[t][1].pc = "compare"
            /\ MonitorCalls(t, "sync_with_staging_branch") => stack[t][1].pc = "synced"
            /\ (MonitorCalls(t, "pull_remote") /\ stack[t][1].pc # "start")
               => /\ stack[t][1].pc = "push"
                  /\ stack[t][2].force = (stack[t][1].pn # {})
                  /\ hist.tick[stack[t][1].self].forced = stack[t][2].force
            /\ MonitorCalls(t, "push_branch")
               => /\ stack[t][1].pc = "push"
                  /\ hist.tick[stack[t][1].self].forced
                  /\ ~hist.tick[stack[t][1].self].synced)
    /\ [][\A t \in Threads :
            (/\ stack[t] # <<>> /\ stack'[t] # <<>>
             /\ stack[t][1].proc = "monitor_branches"
             /\ stack'[t][1].proc = "monitor_branches")
            => \/ Rank(stack'[t][1].pc) >= Rank(stack[t][1].pc)
               \/ stack'[t][1].pc = "start"]_vars

C26_Witness ==
    \E t \in Threads :
        /\ MonitorCalls(t, "push_branch")
        /\ stack[t][2].branch = "staging"
        /\ stack[t][2].pc = "locked"
        /\ exc[t] = "none"

\* The place of an operation in a tick as the claim has it, and as
\* monitor_branches has it.
OrderClaimed(proc) ==
    CASE proc = "pull_remote" -> 1 [] proc = "auto_commit" -> 2
      [] proc \in {"push_branch", "sync_with_staging_branch"} -> 3
OrderFound(proc) ==
    CASE proc = "auto_commit" -> 1 [] proc = "sync_with_staging_branch" -> 2
      [] proc = "pull_remote" -> 3 [] proc = "push_branch" -> 4

\* The calls of tracker k's monitor in its tick so far.
Ops(k) == hist.tick[k].ops

\* The monitor is inside the operation it called last, and inside
\* ensure_staging_branch only as a part of auto_commit or of pull_remote.
OneAtATime(t) ==
    (stack[t] # <<>> /\ stack[t][1].proc = "monitor_branches")
    => LET ops == Ops(stack[t][1].self)
       IN  /\ Len(stack[t]) >= 2 => (ops # <<>> /\ stack[t][2].proc = ops[Len(ops)])
           /\ \A i \in 2..Len(stack[t]) :
                 stack[t][i].proc = "ensure_staging_branch"
                 => stack[t][i - 1].proc \in {"auto_commit", "pull_remote"}

\* C27 as stated: in a monitor tick pull_remote, then ensure_staging_branch,
\* then auto_commit, then the pushes or the squash-merge run, each returning
\* before the next starts.
C27_PullCommitPush ==
    \A t \in Threads :
        /\ OneAtATime(t)
        /\ \A k \in Trackers : \A i, j \in 1..Len(Ops(k)) :
              i < j => OrderClaimed(Ops(k)[i]) <= OrderClaimed(Ops(k)[j])

\* C27 amended: in a monitor tick auto_commit (ensure_staging_branch inside
\* it), then the squash-merge, then pull_remote (ensure_staging_branch
\* inside it), then the pushes run, each returning before the next starts.
C27_CommitMergePullPush ==
    \A t \in Threads :
        /\ OneAtATime(t)
        /\ \A k \in Trackers : \A i, j \in 1..Len(Ops(k)) :
              i < j => OrderFound(Ops(k)[i]) <= OrderFound(Ops(k)[j])

C27_Witness ==
    \E k \in Trackers :
        /\ Len(Ops(k)) >= 3
        /\ Ops(k)[1] = "auto_commit"
        /\ Ops(k)[2] = "pull_remote"
        /\ Ops(k)[3] = "push_branch"

\* The lock thread t is about to take: <<kind, owner>>, or <<"none", None>>
\* when t is at no `with <lock>:`.
Wanted(t) ==
    IF ~Running(t) THEN <<"none", None>>
    ELSE LET f == Top(t)
         IN  IF \/ f.proc \in {"refresh_token", "pull_remote", "push_branch", "auto_commit"}
                   /\ f.pc = "start"
                \/ f.proc = "monitor_branches" /\ f.pc = "flags"
             THEN <<"time", time_lock[f.self].owner>>
             ELSE IF f.pc = "lock"
             THEN <<"repo", REPO_LOCKS[repo_lock(f.self)].owner>>
             ELSE IF f.proc \in {"get_branch_tracker", "ensure_trackers"} /\ f.pc = "start"
             THEN <<"registry", TRACKER_ACCESS_LOCK>>
             ELSE IF f.proc = "get_installation_token" /\ f.pc \in {"cache_lock", "store_lock"}
             THEN <<"cache", token_cache_lock>>
             ELSE <<"none", None>>

\* Thread t waits for a lock another thread holds.  Only the registry lock
\* and the cache mutex are not re-entrant.
Blocked(t) ==
    /\ Wanted(t)[1] # "none"
    /\ Wanted(t)[2] # None
    /\ Wanted(t)[2] = t => Wanted(t)[1] \in {"registry", "cache"}

\* The thread at the end of the chain of waits that starts at t (None when
\* the chain comes back on itself).
RECURSIVE Holder(_, _)
Holder(t, n) ==
    IF ~Blocked(t) THEN t
    ELSE IF n = 0 THEN None
    ELSE Holder(Wanted(t)[2], n - 1)

\* One step of thread t, whatever it is executing.
Move(t) ==
    \/ Methods(t)
    \/ monitor_branches(t)
    \/ get_branch_tracker(t)
    \/ ensure_trackers(t)
    \/ write(t)

InStep5(t) ==
    /\ Len(stack[t]) >= 2
    /\ At(t, "push_branch", "locked")
    /\ Top(t).branch = "staging"
    /\ stack[t][Len(stack[t]) - 1].proc = "sync_with_staging_branch"
    /\ stack[t][Len(stack[t]) - 1].pc = "exit"

\* C29: step 5 of sync_with_staging_branch changes the remote staging ref
\* only when the remote tracking ref is at the local tracking tip, the
\* squash commit of step 3.
C29_StagingPushedAfterTracking ==
    [][\A t \in Threads :
         (/\ InStep5(t)
          /\ Steps(t)
          /\ github'.refs # github.refs \/ github'.tip # github.tip)
         => LET tracking == BranchName(Self(t), "tracking")
            IN  /\ tracking \in github.refs
                /\ github.tip[tracking] = disk[Path(Self(t))].tip[tracking]]_vars

\* Thread t is about to contact the remote with the token of its tracker:
\* the authenticated clone or sync of a pull, or the push of push_branch.
ContactsRemote(t) ==
    /\ Running(t)
    /\ \/ /\ Top(t).proc \in {"_init", "_update"} /\ Top(t).pc = "authed"
          /\ objs[Self(t)].token # NoToken
       \/ /\ At(t, "push_branch", "locked")
          /\ is_initialized(Self(t))

\* C30: whenever push_branch or an authenticated pull contacts the remote
\* with the token of the tracker, that token has not expired.
C30_TokenNotExpiredWhenUsed ==
    [][\A t \in Threads :
         (ContactsRemote(t) /\ Steps(t)) => now <= objs[Self(t)].token.exp]_vars

\* A refresh_token or reset call of tracker k is in progress on some thread.
Refreshing(k) ==
    \E t \in Threads : \E i \in 1..Len(stack[t]) :
        /\ stack[t][i].proc \in {"refresh_token", "reset"}
        /\ stack[t][i].self = k

\* C31: while no refresh_token or reset call of a tracker is in progress,
\* the tracker holds a token if and only if its status is OK.
C31_TokenIffOK ==
    \A k \in 1..Len(objs) :
        ~Refreshing(k) => (objs[k].token # NoToken <=> objs[k].repo_status = "OK")

\* The live monitor threads of tracker k.
MonitorsOf(k) == {m \in Monitors : stack[m] # <<>> /\ stack[m][1].self = k}

\* C32: at most one live monitor thread exists per tracker at any time.
C32_OneMonitorPerTracker ==
    \A k \in 1..Len(objs) : Cardinality(MonitorsOf(k)) <= 1

\* Monitor thread m is in a tick that found its tracker not initialized or
\* its status not OK (lines 379-382): the loop is at `self.pull_remote()`.
UnusableTick(m) ==
    /\ Len(stack[m]) >= 2
    /\ stack[m][1].proc = "monitor_branches"
    /\ stack[m][1].pc = "start"

\* The procedures thread m is inside.
Inside(m) == {stack[m][i].proc : i \in 1..Len(stack[m])}

\* The unforced pull_remote of an INACCESSIBLE tracker returns from its rate
\* limit without cloning, fetching or asking for a token.
InaccessibleSkips(m) ==
    (/\ At(m, "pull_remote", "check")
     /\ objs[Self(m)].repo_status = "INACCESSIBLE"
     /\ Steps(m))
    => /\ stack'[m] = SubSeq(stack[m], 1, 1)
       /\ UNCHANGED <<disk, github, token_cache, objs>>

\* The commits in checkout d.
Commits(d) == UNION {{d.tip[b][i] : i \in 1..Len(d.tip[b])} : b \in DOMAIN d.tip}

\* The commits on the remote.
RemoteCommits ==
    UNION {{github.tip[b][i] : i \in 1..Len(github.tip[b])} : b \in DOMAIN github.tip}

\* A step of monitor thread m creates no commit in its checkout.
NoCommit(m) ==
    Steps(m) => Commits(disk'[Path(Self(m))])
                  \subseteq Commits(disk[Path(Self(m))]) \cup RemoteCommits

\* C33: in a tick in which the tracker is not usable the monitor calls only
\* the unforced pull_remote; no commit is created, nothing is pushed and no
\* squash-merge is started in that tick; when the status is INACCESSIBLE the
\* pull does not clone, fetch or ask for a token.
C33_UnusableTickOnlyPulls ==
    [][\A m \in Monitors :
         UnusableTick(m) =>
            /\ stack[m][2].proc = "pull_remote" /\ ~stack[m][2].force
            /\ Inside(m) \cap {"auto_commit", "sync_with_staging_branch"} = {}
            /\ NoCommit(m)
            /\ Steps(m) => github' = github
            /\ InaccessibleSkips(m)]_vars

\* Thread m pushes only the staging branch that ensure_staging_branch has
\* just created.
PushesNewStaging(m) ==
    \A i \in 1..Len(stack[m]) :
        stack[m][i].proc = "push_branch"
        => /\ stack[m][i].branch = "staging"
           /\ i > 1 /\ stack[m][i - 1].proc = "ensure_staging_branch"

\* C33, amended: as C33, except that the pull itself may push the staging
\* branch it has newly created.
C33_UnusableTickOnlyPullsItself ==
    [][\A m \in Monitors :
         UnusableTick(m) =>
            /\ stack[m][2].proc = "pull_remote" /\ ~stack[m][2].force
            /\ Inside(m) \cap {"auto_commit", "sync_with_staging_branch"} = {}
            /\ NoCommit(m)
            /\ PushesNewStaging(m)
            /\ (Steps(m) /\ github' # github) => At(m, "push_branch", "locked")
            /\ InaccessibleSkips(m)]_vars

\* C33, its case: the unforced pull of an unusable tick has cloned the
\* repository, has created staging, and is about to push it.
C33_Witness ==
    \E m \in Monitors : UnusableTick(m) /\ At(m, "push_branch", "locked")

\* A step of monitor thread m starts sync_with_staging_branch.
StartsSync(m) ==
    /\ stack[m] # <<>>
    /\ stack[m][1].proc = "monitor_branches"
    /\ Len(stack'[m]) = Len(stack[m]) + 1
    /\ stack'[m][Len(stack'[m])].proc = "sync_with_staging_branch"

\* The staging head of tracker k was committed more than the idle threshold
\* ago, and staging has a commit that is not on tracking.
IdleAndUnmerged(k) ==
    LET d == disk[Path(k)]
        staging == d.tip[BranchName(k, "staging")]
        tracking == d.tip[BranchName(k, "tracking")]
    IN  /\ now - staging[Len(staging)].committed_date > MERGE_SQUASHED_AFTER_INACTIVE
        /\ \E i \in 1..Len(staging) :
              \A j \in 1..Len(tracking) : staging[i] # tracking[j]

\* C34: the monitor starts sync_with_staging_branch only when the staging
\* head is older than MERGE_SQUASHED_AFTER_INACTIVE and staging has a commit
\* that is not on tracking, and then it does start it: at the comparison of
\* a tick the squash-merge is started exactly in that case.
C34_SyncOnlyWhenIdleAndUnmerged ==
    [][\A m \in Monitors :
         /\ StartsSync(m) => At(m, "monitor_branches", "compare")
         /\ (At(m, "monitor_branches", "compare") /\ Steps(m) /\ exc'[m] = "none")
            => (StartsSync(m) <=> IdleAndUnmerged(Self(m)))]_vars

\* C34, its case: the monitor has started the squash-merge of a staging
\* branch that has been idle.
C34_Witness ==
    \E m \in Monitors :
        /\ Len(stack[m]) = 2
        /\ stack[m][1].proc = "monitor_branches" /\ stack[m][1].pc = "synced"
        /\ At(m, "sync_with_staging_branch", "start")

\* A step of thread t in which the rebase of sync_with_staging_branch fails.
RebaseFails(t) ==
    /\ At(t, "sync_with_staging_branch", "merge")
    /\ {BranchName(Self(t), b) : b \in BranchKinds} \subseteq disk[Path(Self(t))].heads
    /\ exc'[t] # "none"

\* The failure of the squash-merge has arrived in the loop of monitor m.
SyncFailedIn(m) ==
    /\ Len(stack[m]) = 1
    /\ stack[m][1].proc = "monitor_branches" /\ stack[m][1].pc = "synced"
    /\ exc[m] # "none"

\* C35: a failed rebase inside sync_with_staging_branch leaves the branches
\* as they were, with staging checked out, and raises GitCommandError; the
\* monitor loop catches the error and goes on, with its push flags as they
\* were, to the pull and the pushes of the tick; and at a later comparison
\* at which staging is idle and unmerged the squash-merge is started again.
C35_RebaseFailureIsRetried ==
    [][/\ \A t \in Threads :
            RebaseFails(t)
            => /\ exc'[t] = "GitCommandError"
               /\ disk'[Path(Self(t))].tip = disk[Path(Self(t))].tip
               /\ disk'[Path(Self(t))].HEAD = BranchName(Self(t), "staging")
       /\ \A m \in Monitors :
            /\ (SyncFailedIn(m) /\ Steps(m))
               => /\ exc'[m] = "none"
                  /\ stack'[m] = <<[stack[m][1] EXCEPT !.pc = "pull"]>>
            /\ (/\ At(m, "monitor_branches", "compare") /\ Steps(m) /\ exc'[m] = "none"
                /\ Self(m) \in hist.sync_failed
                /\ IdleAndUnmerged(Self(m)))
               => StartsSync(m)]_vars

\* C35, its case: after a squash-merge that failed in its rebase, the
\* monitor has started the squash-merge again.
C35_Witness ==
    \E m \in Monitors :
        /\ Len(stack[m]) = 2
        /\ stack[m][1].proc = "monitor_branches" /\ stack[m][1].pc = "synced"
        /\ At(m, "sync_with_staging_branch", "start")
        /\ Self(m) \in hist.sync_failed

\* The step of thread t in which auto_commit, past its rate limit and on
\* staging, looks for changes and commits them.
AutoCommits(t) ==
    /\ At(t, "auto_commit", "commit")
    /\ Steps(t)
    /\ exc'[t] = "none"

\* The checkout of tracker k after an auto-commit of the files in changes.
AutoCommitted(k, changes) ==
    [disk EXCEPT ![Path(k)] =
       [@ EXCEPT !.tip[@.HEAD] = Append(@, Commit("Auto-commit staged changes",
                                                   BOT_NAME, changes)),
                 !.staged = {}, !.modified = {}, !.untracked = {}]]

\* C38: an auto_commit past its rate limit on an initialized checkout
\* creates a commit exactly if there is a staged change, an unstaged
\* modification of a tracked file or an untracked file, the commit holds all
\* of them, and otherwise the repository is left as it was.
C38_CommitIffSomethingToCommit ==
    [][\A t \in Threads :
          AutoCommits(t)
          => LET d == disk[Path(Self(t))]
             IN  disk' = IF Changes(d) # {} THEN AutoCommitted(Self(t), Changes(d))
                         ELSE disk]_vars

\* C38, as the code has it: the commit is created exactly if there is a
\* staged change or an untracked file; it holds every staged change,
\* unstaged modification of a tracked file and untracked file; and otherwise
\* the repository is left as it was.
C38_CommitIffStagedOrUntracked ==
    [][\A t \in Threads :
          AutoCommits(t)
          => LET d == disk[Path(Self(t))]
             IN  disk' = IF d.staged # {} \/ d.untracked # {}
                         THEN AutoCommitted(Self(t), Changes(d))
                         ELSE disk]_vars

\* C38, its case: the bot has committed a file whose annotations a session
\* had saved and staged, and the working tree is clean again.
C38_Witness ==
    \E k \in Trackers :
        /\ is_initialized(k)
        /\ Changes(disk[Path(k)]) = {}
        /\ \E c \in Callers :
              /\ calls[c] = MaxCalls /\ stack[c] = <<>>
              /\ ret[c].obj = k
        /\ LET d == disk[Path(k)]
               tip == d.tip[d.HEAD]
           IN  /\ tip[Len(tip)].message = "Auto-commit staged changes"
               /\ tip[Len(tip)].committed_date = now
               /\ tip[Len(tip)].files \cap AnnotationFiles # {}

\* The errors refresh_token handles itself.
Handled == {"GitHubNotInstalledError", "GitHubPermissionError"}

\* Thread t is in a refresh_token call that is past its rate limit.
Obtaining(t) ==
    \E i \in 1..Len(stack[t]) :
        stack[t][i].proc = "refresh_token" /\ stack[t][i].pc = "assign"

\* The tracker whose refresh_token call thread t is in.
Refreshed(t) ==
    stack[t][CHOOSE i \in 1..Len(stack[t]) : stack[t][i].proc = "refresh_token"].self

\* The frame of refresh_token is the innermost one of t, where the call of
\* get_installation_token has ended.
Obtained(t) ==
    /\ Len(stack[t]) > 1
    /\ Top(t).proc = "refresh_token" /\ Top(t).pc = "assign"

\* The token and the status of tracker k are left as they are.
SameAccess(k) ==
    /\ objs'[k].token = objs[k].token
    /\ objs'[k].repo_status = objs[k].repo_status

\* C36: a refresh_token call past its rate limit assigns the obtained token
\* and then OK when get_installation_token returns, and no token and then
\* INACCESSIBLE or READ_ONLY when it raises GitHubNotInstalledError or
\* GitHubPermissionError, so the call returns with that pair; until then,
\* and when any other error is raised, it leaves the token and the status
\* alone, and the other error leaves the call as it is.
C36_RefreshOutcomes ==
    [][\A t \in Threads :
          Steps(t) =>
            /\ (Obtained(t) /\ exc[t] = "none")
               => /\ ret[t].token # NoToken
                  /\ objs'[Self(t)].token = ret[t].token
                  /\ objs'[Self(t)].repo_status = objs[Self(t)].repo_status
                  /\ stack'[t] = Goto(t, "OK")[t]
            /\ (Obtained(t) /\ exc[t] \in Handled)
               => /\ objs'[Self(t)].token = NoToken
                  /\ objs'[Self(t)].repo_status = objs[Self(t)].repo_status
                  /\ exc'[t] = "none"
                  /\ stack'[t] = Goto(t, IF exc[t] = "GitHubNotInstalledError"
                                         THEN "INACCESSIBLE" ELSE "READ_ONLY")[t]
            /\ (Obtained(t) /\ exc[t] \notin Handled \cup {"none"})
               => /\ SameAccess(Self(t))
                  /\ exc'[t] = exc[t]
                  /\ stack'[t] = Return(t)[t]
            /\ (Obtaining(t) /\ ~Obtained(t)) => SameAccess(Refreshed(t))
            /\ (/\ Len(stack[t]) > 0 /\ Top(t).proc = "refresh_token"
                /\ Top(t).pc \in {"OK", "INACCESSIBLE", "READ_ONLY"})
               => /\ objs'[Self(t)].repo_status = Top(t).pc
                  /\ objs'[Self(t)].token = objs[Self(t)].token
                  /\ (objs'[Self(t)].token # NoToken) <=> (Top(t).pc = "OK")
                  /\ stack'[t] = Return(t)[t]
                  /\ exc'[t] = "none"]_vars

\* C36, its case: a refresh_token call has found the app installed without
\* write permission and has returned to its caller.
C36_Witness ==
    \E t \in Threads :
        /\ Running(t)
        /\ Top(t).proc \in {"reset", "push_branch"}
        /\ objs[Self(t)].last_token_refresh_time = now
        /\ objs[Self(t)].repo_status = "READ_ONLY"
        /\ objs[Self(t)].token = NoToken
        /\ github.install = "read"

\* The innermost frame of thread t is a call of reset at pc.
InReset(t, pc) ==
    /\ Len(stack[t]) > 0
    /\ Top(t).proc = "reset" /\ Top(t).pc = pc

\* Thread t is inside a call of reset_trackers or of _reset_tracker.
Resetting(t) ==
    \E i \in 1..Len(stack[t]) : stack[t][i].proc \in {"reset_trackers", "_reset_tracker"}

\* Thread t is inside a call of reset.
InsideReset(t) == \E i \in 1..Len(stack[t]) : stack[t][i].proc = "reset"

\* C37: a call of reset clears the token and the status and calls the forced
\* refresh_token; when that call has ended, however it ended, reset calls
\* the forced pull_remote; nothing a thread does inside reset removes a
\* clone from the disk; when reset returns a monitor thread of the tracker
\* is alive; and no step inside reset_trackers registers or constructs a
\* tracker.
C37_ResetRefreshesThenPulls ==
    [][\A t \in Threads :
          Steps(t) =>
            /\ (InReset(t, "start") /\ exc[t] = "none")
               => /\ objs'[Self(t)].token = NoToken
                  /\ objs'[Self(t)].repo_status = None
                  /\ stack'[t] = Call(t, "pull", Frame("refresh_token", Self(t), TRUE, "-"))[t]
            /\ InReset(t, "pull")
               => stack'[t] = Call(t, "monitor", Frame("pull_remote", Self(t), TRUE, "-"))[t]
            /\ InsideReset(t)
               => \A p \in Paths : disk[p].git => disk'[p].git
            /\ (/\ Len(stack[t]) > 0 /\ Top(t).proc = "reset" /\ Leaves(t)
                /\ exc[t] = "none" /\ exc'[t] = "none")
               => \E k \in {Self(t)} :
                     /\ objs'[k].monitor_thread # None
                     /\ stack'[objs'[k].monitor_thread] # <<>>
                     /\ stack'[objs'[k].monitor_thread][1].self = k
            /\ Resetting(t)
               => /\ Len(objs') = Len(objs)
                  /\ TRACKERS' = TRACKERS
                  /\ REPO_PATH_TO_TRACKER' = REPO_PATH_TO_TRACKER]_vars

\* A thread is inside an operation on tracker k that can create staging.
Creating(k) ==
    \E t \in Threads : \E i \in 1..Len(stack[t]) :
        /\ stack[t][i].proc \in {"pull_remote", "ensure_staging_branch"}
        /\ stack[t][i].self = k

\* C39: where the app can push (the installation grants write, the tracker
\* has found that out, and nothing has failed), a staging branch that exists
\* in the checkout of a tracker while no pull_remote and no
\* ensure_staging_branch of the tracker is under way exists on the remote.
C39_NewStagingIsPushed ==
    \A k \in 1..Len(objs) :
        (/\ github.install = "write" /\ faults = MaxFaults
         /\ objs[k].repo_status = "OK" /\ objs[k].token # NoToken
         /\ is_initialized(k)
         /\ BranchName(k, "staging") \in disk[Path(k)].heads
         /\ ~Creating(k))
        => BranchName(k, "staging") \in github.refs

\* The files that both branches of tracker k have changed since they parted.
Conflicts(k) ==
    LET tracking == disk[Path(k)].tip[BranchName(k, "tracking")]
        staging == disk[Path(k)].tip[BranchName(k, "staging")]
        n == MergeBase(staging, tracking)
    IN  Touched(staging, n) \cap Touched(tracking, n)

\* C40: when sync_with_staging_branch rebases and squash-merges while both
\* branches have changed the same file since they parted, the squash commit
\* it creates on tracking does not change that file: tracking keeps its
\* own content.
C40_ConflictsKeepTracking ==
    [][\A t \in Threads :
          (/\ At(t, "sync_with_staging_branch", "merge")
           /\ Steps(t) /\ exc'[t] = "none")
          => LET k == Self(t)
                 tip == disk'[Path(k)].tip[BranchName(k, "tracking")]
             IN  tip[Len(tip)].files \cap Conflicts(k) = {}]_vars
====
